---------------------------- MODULE Spec2Model ----------------------------
(***************************************************************************)
(* A model of bevy_tiled_camera: the SizedGrid / TiledProjection tile      *)
(* math (src/src/sized_grid.rs, src/src/projection.rs) and the TiledCamera *)
(* viewport recompute (src/src/lib.rs).                                    *)
(*                                                                         *)
(* Real numbers (f32 in the source) are exact here.  Positions are fixed   *)
(* point numbers counted in quarters of a world unit, so 1.0 is Units(1)   *)
(* and 0.5 is HalfUnit; ratios (the zoom, the orthographic size) are       *)
(* fractions [n, d] in lowest sign-normal form (d > 0).                     *)
(***************************************************************************)
EXTENDS Integers, Sequences, FiniteSets, TLC

VARIABLES
    grid,        \* the SizedGrid under test (None when another object is)
    proj,        \* the TiledProjection under test (None when another object is)
    tiled_cam,   \* the TiledCamera component
    transform,   \* GlobalTransform.translation.truncate() of the camera
    call,        \* the call in progress or the last step: operation, arguments, result
    changed,     \* bevy's Changed<TiledCamera>, as on_camera_changed sees it
    resize_events, \* WindowResized events not yet read by on_window_resized
    ortho,       \* OrthographicProjection.scaling_mode of the camera entity
    cam_viewport, \* Camera.viewport of the camera entity
    window,      \* physical resolution of the primary window
    entities     \* the camera entities of an app with several cameras

vars == <<grid, proj, tiled_cam, transform, call,
          changed, resize_events, ortho, cam_viewport, window, entities>>

\* what the grid specification leaves alone, and what the camera specification does
camOnly == <<changed, resize_events, ortho, cam_viewport, window, entities>>
gridOnly == <<grid, proj, transform, entities>>

-----------------------------------------------------------------------------
(* Bounds of the model.                                                    *)

\* tile counts range over 1..MaxTiles on each axis
MaxTiles == 3
\* tile indices handed to the operations range over -MaxIdx..MaxIdx
MaxIdx == 2
\* camera coordinates range over -MaxCam..MaxCam quarters of a unit
MaxCam == 1
\* world coordinates handed to world_to_tile: -MaxWorld..MaxWorld quarters
MaxWorld == 6
\* pixels per tile range over 1..MaxPpt on each axis
MaxPpt == 2
\* the window's physical resolution is at most MaxWin on each axis
MaxWin == 4
\* at most MaxEvents WindowResized events wait to be read
MaxEvents == 1
\* an exhausted iterator is asked for a next item at most MaxNones times
MaxNones == 2
\* extents of the rects compared reach MaxRect halves of a unit
MaxRect == 1
\* at most MaxEntities camera entities exist
MaxEntities == 2

-----------------------------------------------------------------------------
(* Numbers, vectors, options.                                              *)

Units(n) == n * 4
HalfUnit == Units(1) \div 2
Floor(x) == x \div Units(1)

Vec(x, y) == [x |-> x, y |-> y]
VZERO == Vec(0, 0)
VAdd(a, b) == Vec(a.x + b.x, a.y + b.y)
VSub(a, b) == Vec(a.x - b.x, a.y - b.y)
as_vec2(iv) == Vec(Units(iv.x), Units(iv.y))
floor_as_ivec2(v) == Vec(Floor(v.x), Floor(v.y))
HALF == Vec(HalfUnit, HalfUnit)

None == [some |-> FALSE]
Some(v) == [some |-> TRUE, val |-> v]

\* a division that rounds toward negative infinity
FloorDiv(a, b) == a \div b

\* Rust's integer division, which rounds toward zero.
IDiv(a, b) == IF a >= 0 THEN a \div b ELSE -((-a) \div b)

\* the smaller and the larger of two integers
Min2(a, b) == IF a <= b THEN a ELSE b
Max2(a, b) == IF a <= b THEN b ELSE a

-----------------------------------------------------------------------------
(* Ratios: the f32 values update_viewport, screen_to_world and             *)
(* TiledProjection::update compute, and the edges of a TiledProjection,    *)
(* kept exact as fractions [n, d] in lowest terms with d > 0.  The values  *)
(* a division by 0.0 produces are [1, 0] (+inf), [-1, 0] (-inf) and        *)
(* [0, 0] (NaN).                                                           *)

RECURSIVE Gcd(_, _)
Gcd(a, b) == IF b = 0 THEN a ELSE Gcd(b, a % b)

Abs(a) == IF a < 0 THEN -a ELSE a

Sign(a) == IF a > 0 THEN 1 ELSE IF a < 0 THEN -1 ELSE 0

Frac(n, d) ==
    IF d = 0 THEN [n |-> Sign(n), d |-> 0]
    ELSE LET g == Gcd(Abs(n), Abs(d))
         IN  [n |-> Sign(n) * Sign(d) * (Abs(n) \div g), d |-> Abs(d) \div g]

FOne == Frac(1, 1)
FZero == Frac(0, 1)
\* +infinity, and the value that is not a number
FInf == [n |-> 1, d |-> 0]
FNaN == [n |-> 0, d |-> 0]
\* f32 <=: false when an operand is NaN
FLe(a, b) ==
    /\ a # FNaN /\ b # FNaN
    /\ IF a.d = 0 /\ b.d = 0 THEN a.n <= b.n ELSE a.n * b.d <= b.n * a.d
\* f32::min and f32::max: an operand that is NaN is ignored
FMin(a, b) ==
    IF a = FNaN THEN b ELSE IF b = FNaN THEN a ELSE IF FLe(a, b) THEN a ELSE b
FMax(a, b) ==
    IF a = FNaN THEN b ELSE IF b = FNaN THEN a ELSE IF FLe(a, b) THEN b ELSE a
FMul(a, b) == Frac(a.n * b.n, a.d * b.d)
FDiv(a, b) == Frac(a.n * b.d, a.d * b.n)
FSub(a, b) == Frac(a.n * b.d - b.n * a.d, a.d * b.d)
FAdd(a, b) == Frac(a.n * b.d + b.n * a.d, a.d * b.d)
FNeg(a) == Frac(-a.n, a.d)
\* f32::floor
FFloor(a) == IF a.d = 0 THEN a ELSE Frac(a.n \div a.d, 1)
\* f32::round: to the nearest integer, halves away from zero
FRound(a) ==
    IF a.d = 0 THEN a
    ELSE Frac(Sign(a.n) * ((2 * Abs(a.n) + a.d) \div (2 * a.d)), 1)
\* the value `as u32` saturates to.  u32::MAX is 2^32 - 1; the integers of
\* the model checker end at 2^31 - 1, which stands for it here: like
\* u32::MAX it is above every window, target and viewport value of the model
U32_MAX == 2147483647

\* `as u32`: the fraction is dropped, NaN and negative values give 0 and
\* +infinity gives the largest value
AsU32(a) ==
    IF a.d = 0 THEN (IF a.n > 0 THEN U32_MAX ELSE 0)
    ELSE IF a.n < 0 THEN 0 ELSE a.n \div a.d

\* UVec2::as_vec2 and Vec2::as_uvec2 on vectors of ratios
uvec2_as_vec2(v) == Vec(Frac(v.x, 1), Frac(v.y, 1))
as_uvec2(v) == Vec(AsU32(v.x), AsU32(v.y))

-----------------------------------------------------------------------------
(* The inputs of the tile math.                                            *)

TileCounts == {Vec(x, y) : x \in 1..MaxTiles, y \in 1..MaxTiles}
TileIdx == {Vec(x, y) : x \in -MaxIdx..MaxIdx, y \in -MaxIdx..MaxIdx}
CamPositions == {Vec(x, y) : x \in -MaxCam..MaxCam, y \in -MaxCam..MaxCam}
WorldPositions == {Vec(x, y) : x \in -MaxWorld..MaxWorld, y \in -MaxWorld..MaxWorld}
PixelsPerTile == {Vec(x, y) : x \in 1..MaxPpt, y \in 1..MaxPpt}

-----------------------------------------------------------------------------
(* SizedGrid (src/src/sized_grid.rs).                                      *)

\* Vec2::select((tile_count % 2).cmpeq(ZERO), (0.5, 0.5), ZERO)
ParityOffset(tile_count) ==
    Vec(IF tile_count.x % 2 = 0 THEN HalfUnit ELSE 0,
        IF tile_count.y % 2 = 0 THEN HalfUnit ELSE 0)

SizedGrid_new(tile_count) ==
    [tile_count |-> tile_count,
     center_offset |-> ParityOffset(tile_count),
     centered |-> TRUE]

\* an uncentred grid whose centre offset is zero
SizedGrid_new_uncentered_zero(tile_count) ==
    [tile_count |-> tile_count,
     center_offset |-> VZERO,
     centered |-> FALSE]

SizedGrid_new_uncentered(tile_count) ==
    [tile_count |-> tile_count,
     center_offset |-> HALF,
     centered |-> FALSE]

tile_offset(g) == VSub(g.center_offset, HALF)

tile_to_local(g, tile) == VAdd(as_vec2(tile), tile_offset(g))

\* floor of the local position, the tile offset forgotten
local_to_tile_no_offset(g, local) == floor_as_ivec2(local)

\* local_to_tile rounding to the nearest tile instead of down
local_to_tile_rounded(g, local) ==
    floor_as_ivec2(VAdd(VSub(local, tile_offset(g)), HALF))

local_to_tile(g, local) == floor_as_ivec2(VSub(local, tile_offset(g)))

\* SizedGrid::local_to_world with the camera position left out
local_to_world_ignoring_camera(t, local_pos) == local_pos

local_to_world(t, local_pos) == VAdd(local_pos, t)

world_to_local(t, world_pos) == VSub(world_pos, t)

tile_to_world_unchecked(g, t, tile_pos) ==
    local_to_world(t, tile_to_local(g, tile_pos))

world_to_tile_unchecked(g, t, world_pos) ==
    local_to_tile(g, world_to_local(t, world_pos))

\* the corner shifted by the grid's center_offset instead of (0.5, 0.5)
tile_center_world_by_center_offset(g, t, tile_pos) ==
    VAdd(tile_to_world_unchecked(g, t, tile_pos), g.center_offset)

tile_center_world_unchecked(g, t, tile_pos) ==
    VAdd(tile_to_world_unchecked(g, t, tile_pos), HALF)

\* the (min, max) pair of tile_in_bounds
BoundsMin(g) ==
    IF g.centered
    THEN Vec(IDiv(-g.tile_count.x, 2), IDiv(-g.tile_count.y, 2))
    ELSE VZERO

BoundsMax(g) ==
    IF g.centered
    THEN VAdd(BoundsMin(g), g.tile_count)
    ELSE g.tile_count

tile_in_bounds(g, tile_pos) ==
    LET min == BoundsMin(g)
        max == BoundsMax(g)
        above_min == tile_pos.x >= min.x /\ tile_pos.y >= min.y
        below_max == tile_pos.x < max.x /\ tile_pos.y < max.y
    IN  above_min /\ below_max

\* tile_to_world without its bounds check
tile_to_world_no_check(g, t, tile_pos) ==
    Some(tile_to_world_unchecked(g, t, tile_pos))

tile_to_world(g, t, tile_pos) ==
    IF ~tile_in_bounds(g, tile_pos)
    THEN None
    ELSE Some(tile_to_world_unchecked(g, t, tile_pos))

\* world_to_tile without its bounds check
world_to_tile_no_check(g, t, world_pos) ==
    Some(world_to_tile_unchecked(g, t, world_pos))

world_to_tile(g, t, world_pos) ==
    LET tile_pos == world_to_tile_unchecked(g, t, world_pos)
    IN  IF ~tile_in_bounds(g, tile_pos) THEN None ELSE Some(tile_pos)

tile_to_tile_center_world(g, t, tile_pos) ==
    IF ~tile_in_bounds(g, tile_pos)
    THEN None
    ELSE Some(tile_center_world_unchecked(g, t, tile_pos))

\* min_world_position with the minimum cell rounded down instead of toward zero
min_world_position_floored(g, t) ==
    tile_to_world_unchecked(g, t,
        IF g.centered
        THEN Vec(FloorDiv(-g.tile_count.x, 2), FloorDiv(-g.tile_count.y, 2))
        ELSE VZERO)

min_world_position(g, t) == tile_to_world_unchecked(g, t, BoundsMin(g))

-----------------------------------------------------------------------------
(* TilePosIterator and TileCenterIterator (src/src/sized_grid.rs).         *)

TilePosIterator_from_grid(g, t) ==
    [min |-> min_world_position(g, t),
     width |-> g.tile_count.x,
     current |-> 0,
     length |-> g.tile_count.x * g.tile_count.y]

\* the item with the two coordinates of the index exchanged
TilePosIterator_item_transposed(it) ==
    VAdd(it.min, as_vec2(Vec(it.current \div it.width, it.current % it.width)))

\* (self.min + UVec2::new(i % self.width, i / self.width).as_vec2())
TilePosIterator_item(it) ==
    VAdd(it.min, as_vec2(Vec(it.current % it.width, it.current \div it.width)))

\* TilePosIterator::next: the iterator afterwards and the item returned
TilePosIterator_next(it) ==
    IF it.current < it.length
    THEN [iter |-> [it EXCEPT !.current = it.current + 1],
          item |-> Some(TilePosIterator_item(it))]
    ELSE [iter |-> it, item |-> None]

TileCenterIterator_from_grid(g, t) == [iter |-> TilePosIterator_from_grid(g, t)]

\* TileCenterIterator::next
TileCenterIterator_next(ci) ==
    LET r == TilePosIterator_next(ci.iter)
    IN  [iter |-> [iter |-> r.iter],
         item |-> IF r.item.some THEN Some(VAdd(r.item.val, HALF)) ELSE None]

-----------------------------------------------------------------------------
(* TiledProjection (src/src/projection.rs).                                *)

center_offset(centered, size) ==
    IF ~centered
    THEN HALF
    ELSE Vec(IF size.x % 2 = 0 THEN HalfUnit ELSE 0,
             IF size.y % 2 = 0 THEN HalfUnit ELSE 0)

Proj_set_tile_count(p, tile_count) ==
    [p EXCEPT !.target_tile_count = tile_count,
              !.center_offset = center_offset(p.centered, tile_count)]

\* TiledProjection::set_centered without the recomputation of the offset
Proj_set_centered_stale(p, centered) == [p EXCEPT !.centered = centered]

Proj_set_centered(p, centered) ==
    [p EXCEPT !.centered = centered,
              !.center_offset = center_offset(centered, p.target_tile_count)]

Proj_struct(target_tile_count, centered) ==
    [left |-> Frac(-1, 1), right |-> Frac(1, 1),
     bottom |-> Frac(-1, 1), top |-> Frac(1, 1),
     near |-> Frac(0, 1), far |-> Frac(1000, 1),
     zoom |-> 1,
     centered |-> centered,
     target_tile_count |-> target_tile_count,
     pixels_per_tile |-> 8,
     center_offset |-> VZERO]

Proj_new(target_tile_count) ==
    Proj_set_tile_count(Proj_struct(target_tile_count, TRUE), target_tile_count)

Proj_uncentered(target_tile_count) ==
    Proj_set_tile_count(Proj_struct(target_tile_count, FALSE), target_tile_count)

Proj_tile_offset(p) == VSub(p.center_offset, HALF)

Proj_tile_to_local(p, tile) == VAdd(as_vec2(tile), Proj_tile_offset(p))

Proj_local_to_tile(p, local) == floor_as_ivec2(VSub(local, Proj_tile_offset(p)))

Proj_local_to_world(t, local_pos) == VAdd(local_pos, t)

Proj_world_to_local(t, world_pos) == VSub(world_pos, t)

Proj_tile_in_bounds(p, tile_pos) ==
    LET min == IF p.centered
               THEN Vec(IDiv(-p.target_tile_count.x, 2),
                        IDiv(-p.target_tile_count.y, 2))
               ELSE VZERO
        max == IF p.centered
               THEN VAdd(min, p.target_tile_count)
               ELSE p.target_tile_count
        above_min == tile_pos.x >= min.x /\ tile_pos.y >= min.y
        below_max == tile_pos.x < max.x /\ tile_pos.y < max.y
    IN  above_min /\ below_max

Proj_tile_to_world_unchecked(p, t, tile_pos) ==
    Proj_local_to_world(t, Proj_tile_to_local(p, tile_pos))

Proj_tile_to_world(p, t, tile_pos) ==
    IF ~Proj_tile_in_bounds(p, tile_pos)
    THEN None
    ELSE Some(Proj_tile_to_world_unchecked(p, t, tile_pos))

Proj_world_to_tile_unchecked(p, t, world_pos) ==
    Proj_local_to_tile(p, Proj_world_to_local(t, world_pos))

Proj_world_to_tile(p, t, world_pos) ==
    LET tile_pos == Proj_world_to_tile_unchecked(p, t, world_pos)
    IN  IF ~Proj_tile_in_bounds(p, tile_pos) THEN None ELSE Some(tile_pos)

Proj_tile_center_world_unchecked(p, t, tile_pos) ==
    VAdd(Proj_tile_to_world_unchecked(p, t, tile_pos), HALF)

Proj_tile_center_world(p, t, tile_pos) ==
    IF ~Proj_tile_in_bounds(p, tile_pos)
    THEN None
    ELSE Some(Proj_tile_center_world_unchecked(p, t, tile_pos))

-----------------------------------------------------------------------------
(* sark_grids::world_grid::WorldGrid, the grid a TiledCamera holds.  The   *)
(* crate is a dependency whose source is not part of this repository; its  *)
(* operations are modelled from the specification and from the values the  *)
(* tests of src/src/lib.rs expect.                                         *)

WorldGrid_unit_grid(tile_count, pixels_per_tile) ==
    [tile_count |-> tile_count, pixels_per_tile |-> pixels_per_tile,
     world_space |-> "Units"]

WorldGrid_pixel_grid(tile_count, pixels_per_tile) ==
    [tile_count |-> tile_count, pixels_per_tile |-> pixels_per_tile,
     world_space |-> "Pixels"]

world_space_scale(g) ==
    IF g.world_space = "Units" THEN Vec(1, 1) ELSE g.pixels_per_tile

\* the offset of tile (0,0)'s corner from the grid's centre
WorldGrid_tile_offset(g) ==
    Vec(IF g.tile_count.x % 2 = 0 THEN 0 ELSE -HalfUnit,
        IF g.tile_count.y % 2 = 0 THEN 0 ELSE -HalfUnit)

index_to_pos(g, index) ==
    LET o == WorldGrid_tile_offset(g)
        s == world_space_scale(g)
    IN  Vec((Units(index.x) + o.x) * s.x, (Units(index.y) + o.y) * s.y)

WorldGrid_index_to_tile_center(g, index) ==
    LET s == world_space_scale(g)
    IN  VAdd(index_to_pos(g, index), Vec(HalfUnit * s.x, HalfUnit * s.y))

\* floor(pos / scale - offset)
pos_to_index(g, pos) ==
    LET o == WorldGrid_tile_offset(g)
        s == world_space_scale(g)
    IN  Vec((pos.x - o.x * s.x) \div (Units(1) * s.x),
            (pos.y - o.y * s.y) \div (Units(1) * s.y))

-----------------------------------------------------------------------------
(* TiledCamera (src/src/lib.rs).                                           *)

TiledCamera_default ==
    [pixels_per_tile |-> Vec(8, 8),
     tile_count |-> Vec(80, 45),
     grid |-> WorldGrid_unit_grid(Vec(80, 45), Vec(8, 8)),
     zoom |-> 1,
     vp_size |-> Vec(1, 1),
     vp_pos |-> VZERO]

TiledCamera_unit_cam(tile_count, pixels_per_tile) ==
    [TiledCamera_default EXCEPT
        !.pixels_per_tile = pixels_per_tile,
        !.tile_count = tile_count,
        !.grid = WorldGrid_unit_grid(tile_count, pixels_per_tile)]

TiledCamera_pixel_cam(tile_count, pixels_per_tile) ==
    [TiledCamera_default EXCEPT
        !.pixels_per_tile = pixels_per_tile,
        !.tile_count = tile_count,
        !.grid = WorldGrid_pixel_grid(tile_count, pixels_per_tile)]

target_resolution(c) ==
    Vec(c.pixels_per_tile.x * c.tile_count.x, c.pixels_per_tile.y * c.tile_count.y)

Cam_world_to_local(t, world_pos) == VSub(world_pos, t)

\* TiledCamera::local_to_world with the camera position subtracted
Cam_local_to_world_negated(t, local_pos) == VSub(local_pos, t)

Cam_local_to_world(t, local_pos) == VAdd(local_pos, t)

world_to_index(c, t, world_pos) ==
    pos_to_index(c.grid, Cam_world_to_local(t, world_pos))

\* TiledCamera::index_to_tile_pos returning the tile's centre
index_to_tile_pos_centered(c, t, pos) ==
    Cam_local_to_world(t, WorldGrid_index_to_tile_center(c.grid, pos))

index_to_tile_pos(c, t, pos) ==
    Cam_local_to_world(t, index_to_pos(c.grid, pos))

index_to_tile_center(c, t, index) ==
    Cam_local_to_world(t, WorldGrid_index_to_tile_center(c.grid, index))

set_world_space(c, world_space) == [c EXCEPT !.grid.world_space = world_space]

world_space(c) == c.grid.world_space

-----------------------------------------------------------------------------
(* The grid specification: one object (a SizedGrid, a TiledProjection or a *)
(* TiledCamera) is built, the camera entity is moved, and the object's     *)
(* operations are called one at a time.                                    *)

Idle == [op |-> "idle"]

Grids == {SizedGrid_new(tc) : tc \in TileCounts}
            \cup {SizedGrid_new_uncentered(tc) : tc \in TileCounts}

Projections == {Proj_new(tc) : tc \in TileCounts}
                  \cup {Proj_uncentered(tc) : tc \in TileCounts}

Cameras == {TiledCamera_unit_cam(tc, ppt) : tc \in TileCounts, ppt \in PixelsPerTile}
              \cup {TiledCamera_pixel_cam(tc, ppt) : tc \in TileCounts, ppt \in PixelsPerTile}

\* the offsets a camera is moved by between two calls
Offsets == {Vec(Units(1), -HalfUnit), Vec(-1, Units(2))}

\* the positions handed to TiledCamera::local_to_world and world_to_local
LocalPositions ==
    {Vec(x, y) : x \in {-Units(1), HalfUnit}, y \in {0, Units(1) + 1}}

GridInit ==
    /\ \/ grid \in Grids /\ proj = None /\ tiled_cam = None
       \/ grid = None /\ proj \in Projections /\ tiled_cam = None
       \/ grid = None /\ proj = None /\ tiled_cam \in Cameras
    /\ transform \in CamPositions
    /\ call = Idle
    /\ changed = FALSE
    /\ resize_events = <<>>
    /\ ortho = [mode |-> "WindowSize"]
    /\ cam_viewport = None
    /\ window = Vec(1, 1)
    /\ entities = <<>>

\* SizedGrid::new
New ==
    /\ call = Idle
    /\ \E tc \in TileCounts : grid' = SizedGrid_new(tc)
    /\ proj' = None /\ tiled_cam' = None
    /\ UNCHANGED <<transform, call>>
    /\ UNCHANGED camOnly

\* SizedGrid::new_uncentered
NewUncentered ==
    /\ call = Idle
    /\ \E tc \in TileCounts : grid' = SizedGrid_new_uncentered(tc)
    /\ proj' = None /\ tiled_cam' = None
    /\ UNCHANGED <<transform, call>>
    /\ UNCHANGED camOnly

\* TiledProjection::new
ProjNew ==
    /\ call = Idle
    /\ \E tc \in TileCounts : proj' = Proj_new(tc)
    /\ grid' = None /\ tiled_cam' = None
    /\ UNCHANGED <<transform, call>>
    /\ UNCHANGED camOnly

\* TiledProjection::uncentered
ProjUncentered ==
    /\ call = Idle
    /\ \E tc \in TileCounts : proj' = Proj_uncentered(tc)
    /\ grid' = None /\ tiled_cam' = None
    /\ UNCHANGED <<transform, call>>
    /\ UNCHANGED camOnly

\* TiledProjection::set_tile_count
ProjSetTileCount ==
    /\ call = Idle /\ proj # None
    /\ \E tc \in TileCounts : proj' = Proj_set_tile_count(proj, tc)
    /\ UNCHANGED <<grid, tiled_cam, transform, call>>
    /\ UNCHANGED camOnly

\* TiledProjection::set_centered
ProjSetCentered ==
    /\ call = Idle /\ proj # None
    /\ \E c \in BOOLEAN : proj' = Proj_set_centered(proj, c)
    /\ UNCHANGED <<grid, tiled_cam, transform, call>>
    /\ UNCHANGED camOnly

\* TiledCamera::unit_cam
UnitCam ==
    /\ call = Idle
    /\ \E tc \in TileCounts, ppt \in PixelsPerTile :
         tiled_cam' = TiledCamera_unit_cam(tc, ppt)
    /\ grid' = None /\ proj' = None
    /\ UNCHANGED <<transform, call>>
    /\ UNCHANGED camOnly

\* TiledCamera::pixel_cam
PixelCam ==
    /\ call = Idle
    /\ \E tc \in TileCounts, ppt \in PixelsPerTile :
         tiled_cam' = TiledCamera_pixel_cam(tc, ppt)
    /\ grid' = None /\ proj' = None
    /\ UNCHANGED <<transform, call>>
    /\ UNCHANGED camOnly

\* the camera entity's transform is moved
MoveCamera ==
    /\ call = Idle
    /\ \E t \in CamPositions : transform' = t
    /\ UNCHANGED <<grid, proj, tiled_cam, call>>
    /\ UNCHANGED camOnly

\* SizedGrid::tile_to_world
TileToWorld ==
    /\ call = Idle /\ grid # None
    /\ \E i \in TileIdx :
         call' = [op |-> "tile_to_world", tile |-> i,
                  result |-> tile_to_world(grid, transform, i)]
    /\ UNCHANGED <<grid, proj, tiled_cam, transform>>
    /\ UNCHANGED camOnly

\* SizedGrid::tile_to_tile_center_world
TileToTileCenterWorld ==
    /\ call = Idle /\ grid # None
    /\ \E i \in TileIdx :
         call' = [op |-> "tile_to_tile_center_world", tile |-> i,
                  result |-> tile_to_tile_center_world(grid, transform, i)]
    /\ UNCHANGED <<grid, proj, tiled_cam, transform>>
    /\ UNCHANGED camOnly

\* SizedGrid::world_to_tile
WorldToTile ==
    /\ call = Idle /\ grid # None
    /\ \E p \in WorldPositions :
         call' = [op |-> "world_to_tile", world |-> p,
                  result |-> world_to_tile(grid, transform, p)]
    /\ UNCHANGED <<grid, proj, tiled_cam, transform>>
    /\ UNCHANGED camOnly

\* world_to_tile(transform, tile_to_world(transform, i)), as a caller composes them
RoundTrip ==
    /\ call = Idle /\ grid # None
    /\ \E i \in TileIdx :
         LET w == tile_to_world(grid, transform, i)
         IN  call' = [op |-> "round_trip", tile |-> i, world |-> w,
                      result |-> IF w.some
                                 THEN world_to_tile(grid, transform, w.val)
                                 ELSE None]
    /\ UNCHANGED <<grid, proj, tiled_cam, transform>>
    /\ UNCHANGED camOnly

\* tile_to_world and tile_to_tile_center_world called with the same
\* transform and index
TileCornerAndCenter ==
    /\ call = Idle /\ grid # None
    /\ \E i \in TileIdx :
         call' = [op |-> "tile_corner_and_center", tile |-> i,
                  corner |-> tile_to_world(grid, transform, i),
                  center |-> tile_to_tile_center_world(grid, transform, i)]
    /\ UNCHANGED <<grid, proj, tiled_cam, transform>>
    /\ UNCHANGED camOnly

\* SizedGrid::pos_iter
PosIter ==
    /\ call = Idle /\ grid # None
    /\ call' = [op |-> "pos_iter",
                iter |-> TilePosIterator_from_grid(grid, transform),
                yielded |-> <<>>, nones |-> 0]
    /\ UNCHANGED <<grid, proj, tiled_cam, transform>>
    /\ UNCHANGED camOnly

\* SizedGrid::center_iter
CenterIter ==
    /\ call = Idle /\ grid # None
    /\ call' = [op |-> "center_iter",
                iter |-> TileCenterIterator_from_grid(grid, transform),
                yielded |-> <<>>, nones |-> 0]
    /\ UNCHANGED <<grid, proj, tiled_cam, transform>>
    /\ UNCHANGED camOnly

\* TilePosIterator::next on the iterator in use; the items it has returned
\* are kept, and so is the number of times it has returned None
PosIterNext ==
    /\ call.op = "pos_iter"
    /\ call.nones < MaxNones
    /\ LET r == TilePosIterator_next(call.iter)
       IN  call' = [call EXCEPT
                      !.iter = r.iter,
                      !.yielded = IF r.item.some THEN Append(@, r.item.val) ELSE @,
                      !.nones = IF r.item.some THEN @ ELSE @ + 1]
    /\ UNCHANGED <<grid, proj, tiled_cam, transform>>
    /\ UNCHANGED camOnly

\* TileCenterIterator::next on the iterator in use
CenterIterNext ==
    /\ call.op = "center_iter"
    /\ call.nones < MaxNones
    /\ LET r == TileCenterIterator_next(call.iter)
       IN  call' = [call EXCEPT
                      !.iter = r.iter,
                      !.yielded = IF r.item.some THEN Append(@, r.item.val) ELSE @,
                      !.nones = IF r.item.some THEN @ ELSE @ + 1]
    /\ UNCHANGED <<grid, proj, tiled_cam, transform>>
    /\ UNCHANGED camOnly

\* SizedGrid::tile_in_bounds
TileInBounds ==
    /\ call = Idle /\ grid # None
    /\ \E i \in TileIdx :
         call' = [op |-> "tile_in_bounds", tile |-> i,
                  result |-> tile_in_bounds(grid, i)]
    /\ UNCHANGED <<grid, proj, tiled_cam, transform>>
    /\ UNCHANGED camOnly

\* SizedGrid::tile_to_local
TileToLocal ==
    /\ call = Idle /\ grid # None
    /\ \E i \in TileIdx :
         call' = [op |-> "tile_to_local", tile |-> i,
                  result |-> tile_to_local(grid, i)]
    /\ UNCHANGED <<grid, proj, tiled_cam, transform>>
    /\ UNCHANGED camOnly

\* TiledProjection::tile_to_world
ProjTileToWorld ==
    /\ call = Idle /\ proj # None
    /\ \E i \in TileIdx :
         call' = [op |-> "proj.tile_to_world", tile |-> i,
                  result |-> Proj_tile_to_world(proj, transform, i)]
    /\ UNCHANGED <<grid, proj, tiled_cam, transform>>
    /\ UNCHANGED camOnly

\* TiledProjection::tile_center_world
ProjTileCenterWorld ==
    /\ call = Idle /\ proj # None
    /\ \E i \in TileIdx :
         call' = [op |-> "proj.tile_center_world", tile |-> i,
                  result |-> Proj_tile_center_world(proj, transform, i)]
    /\ UNCHANGED <<grid, proj, tiled_cam, transform>>
    /\ UNCHANGED camOnly

\* TiledProjection::world_to_tile
ProjWorldToTile ==
    /\ call = Idle /\ proj # None
    /\ \E p \in WorldPositions :
         call' = [op |-> "proj.world_to_tile", world |-> p,
                  result |-> Proj_world_to_tile(proj, transform, p)]
    /\ UNCHANGED <<grid, proj, tiled_cam, transform>>
    /\ UNCHANGED camOnly

\* TiledProjection::tile_in_bounds
ProjTileInBounds ==
    /\ call = Idle /\ proj # None
    /\ \E i \in TileIdx :
         call' = [op |-> "proj.tile_in_bounds", tile |-> i,
                  result |-> Proj_tile_in_bounds(proj, i)]
    /\ UNCHANGED <<grid, proj, tiled_cam, transform>>
    /\ UNCHANGED camOnly

\* TiledProjection::tile_to_local
ProjTileToLocal ==
    /\ call = Idle /\ proj # None
    /\ \E i \in TileIdx :
         call' = [op |-> "proj.tile_to_local", tile |-> i,
                  result |-> Proj_tile_to_local(proj, i)]
    /\ UNCHANGED <<grid, proj, tiled_cam, transform>>
    /\ UNCHANGED camOnly

\* TiledCamera::index_to_tile_pos, which returns a Vec2
IndexToTilePos ==
    /\ call = Idle /\ tiled_cam # None
    /\ \E i \in TileIdx :
         call' = [op |-> "index_to_tile_pos", tile |-> i,
                  result |-> Some(index_to_tile_pos(tiled_cam, transform, i))]
    /\ UNCHANGED <<grid, proj, tiled_cam, transform>>
    /\ UNCHANGED camOnly

\* TiledCamera::index_to_tile_center, which returns a Vec2
IndexToTileCenter ==
    /\ call = Idle /\ tiled_cam # None
    /\ \E i \in TileIdx :
         call' = [op |-> "index_to_tile_center", tile |-> i,
                  result |-> Some(index_to_tile_center(tiled_cam, transform, i))]
    /\ UNCHANGED <<grid, proj, tiled_cam, transform>>
    /\ UNCHANGED camOnly

\* TiledCamera::world_to_index, which returns an IVec2
WorldToIndex ==
    /\ call = Idle /\ tiled_cam # None
    /\ \E p \in WorldPositions :
         call' = [op |-> "world_to_index", world |-> p,
                  result |-> Some(world_to_index(tiled_cam, transform, p))]
    /\ UNCHANGED <<grid, proj, tiled_cam, transform>>
    /\ UNCHANGED camOnly

\* TiledCamera::local_to_world, and world_to_local applied to what it returns
CamLocalToWorld ==
    /\ call = Idle /\ tiled_cam # None
    /\ \E p \in LocalPositions :
         LET w == Cam_local_to_world(transform, p)
         IN  call' = [op |-> "cam.local_to_world", local |-> p,
                      result |-> w,
                      back |-> Cam_world_to_local(transform, w)]
    /\ UNCHANGED <<grid, proj, tiled_cam, transform>>
    /\ UNCHANGED camOnly

\* TiledCamera::world_to_local, and local_to_world applied to what it returns
CamWorldToLocal ==
    /\ call = Idle /\ tiled_cam # None
    /\ \E p \in LocalPositions :
         LET l == Cam_world_to_local(transform, p)
         IN  call' = [op |-> "cam.world_to_local", world |-> p,
                      result |-> l,
                      back |-> Cam_local_to_world(transform, l)]
    /\ UNCHANGED <<grid, proj, tiled_cam, transform>>
    /\ UNCHANGED camOnly

\* TiledCamera::index_to_tile_pos, then TiledCamera::world_to_index on what it returns
CamRoundTrip ==
    /\ call = Idle /\ tiled_cam # None
    /\ \E i \in TileIdx :
         LET w == index_to_tile_pos(tiled_cam, transform, i)
         IN  call' = [op |-> "cam.round_trip", tile |-> i, world |-> w,
                      result |-> world_to_index(tiled_cam, transform, w)]
    /\ UNCHANGED <<grid, proj, tiled_cam, transform>>
    /\ UNCHANGED camOnly

\* SizedGrid::min_world_position, with the corner of tile (0,0) and the
\* centres tile_to_tile_center_world gives for the tiles of the grid
MinWorldPosition ==
    /\ call = Idle /\ grid # None
    /\ call' = [op |-> "min_world_position",
                result |-> min_world_position(grid, transform),
                origin |-> tile_to_world(grid, transform, VZERO),
                centers |-> {tile_to_tile_center_world(grid, transform, i).val :
                               i \in {k \in TileIdx : tile_in_bounds(grid, k)}}]
    /\ UNCHANGED <<grid, proj, tiled_cam, transform>>
    /\ UNCHANGED camOnly

\* SizedGrid::tile_to_world and tile_to_tile_center_world for one tile, with
\* the camera at transform and at transform + d
MovedTileToWorld ==
    /\ call = Idle /\ grid # None
    /\ \E i \in TileIdx, d \in Offsets :
         call' = [op |-> "moved.tile_to_world", tile |-> i, offset |-> d,
                  at |-> tile_to_world(grid, transform, i),
                  moved |-> tile_to_world(grid, VAdd(transform, d), i),
                  center_at |-> tile_to_tile_center_world(grid, transform, i),
                  center_moved |->
                      tile_to_tile_center_world(grid, VAdd(transform, d), i)]
    /\ UNCHANGED <<grid, proj, tiled_cam, transform>>
    /\ UNCHANGED camOnly

\* SizedGrid::world_to_tile of p with the camera at transform, and of p + d
\* with the camera at transform + d
MovedWorldToTile ==
    /\ call = Idle /\ grid # None
    /\ \E p \in LocalPositions, d \in Offsets :
         call' = [op |-> "moved.world_to_tile", world |-> p, offset |-> d,
                  at |-> world_to_tile(grid, transform, p),
                  moved |-> world_to_tile(grid, VAdd(transform, d), VAdd(p, d))]
    /\ UNCHANGED <<grid, proj, tiled_cam, transform>>
    /\ UNCHANGED camOnly

\* SizedGrid::local_to_tile, and tile_to_local of the tile it returns
LocalToTile ==
    /\ call = Idle /\ grid # None
    /\ \E p \in WorldPositions :
         LET t == local_to_tile(grid, p)
         IN  call' = [op |-> "local_to_tile", local |-> p, result |-> t,
                      corner |-> tile_to_local(grid, t)]
    /\ UNCHANGED <<grid, proj, tiled_cam, transform>>
    /\ UNCHANGED camOnly

\* the caller takes the result
Return ==
    /\ call # Idle
    /\ call' = Idle
    /\ UNCHANGED <<grid, proj, tiled_cam, transform>>
    /\ UNCHANGED camOnly

GridNext ==
    \/ New
    \/ NewUncentered
    \/ ProjNew
    \/ ProjUncentered
    \/ ProjSetTileCount
    \/ ProjSetCentered
    \/ UnitCam
    \/ PixelCam
    \/ MoveCamera
    \/ TileToWorld
    \/ TileToTileCenterWorld
    \/ WorldToTile
    \/ RoundTrip
    \/ TileCornerAndCenter
    \/ PosIter
    \/ CenterIter
    \/ PosIterNext
    \/ CenterIterNext
    \/ TileInBounds
    \/ TileToLocal
    \/ ProjTileToWorld
    \/ ProjTileCenterWorld
    \/ ProjWorldToTile
    \/ ProjTileInBounds
    \/ ProjTileToLocal
    \/ IndexToTilePos
    \/ IndexToTileCenter
    \/ WorldToIndex
    \/ CamLocalToWorld
    \/ CamWorldToLocal
    \/ CamRoundTrip
    \/ MinWorldPosition
    \/ MovedTileToWorld
    \/ MovedWorldToTile
    \/ LocalToTile
    \/ Return

GridSpec == GridInit /\ [][GridNext]_vars

-----------------------------------------------------------------------------
(* update_viewport (src/src/lib.rs): the recompute both systems call.      *)

\* (wres / tres).min_element() without the clamp to 1.0
viewport_zoom_unclamped(wres, tres) ==
    FMin(FDiv(wres.x, tres.x), FDiv(wres.y, tres.y))

\* the larger of the two ratios instead of the smaller
viewport_zoom_max_element(wres, tres) ==
    FMax(FMax(FDiv(wres.x, tres.x), FDiv(wres.y, tres.y)), FOne)

\* let zoom = (wres / tres).min_element().max(1.0);
viewport_zoom(wres, tres) ==
    FMax(FMin(FDiv(wres.x, tres.x), FDiv(wres.y, tres.y)), FOne)

\* the match on world_space() that yields ortho_size
viewport_ortho_size(c, zoom) ==
    IF world_space(c) = "Units"
    THEN Frac(c.tile_count.y, 1)
    ELSE FMul(Frac(c.pixels_per_tile.y, 1), zoom)

\* let vp_size = tres * zoom;
viewport_size(tres, zoom) == Vec(FMul(tres.x, zoom), FMul(tres.y, zoom))

\* the position without the test against the target resolution
viewport_position_always_centered(wres, tres, vp_size) ==
    Vec(FFloor(FSub(FDiv(wres.x, Frac(2, 1)), FDiv(vp_size.x, Frac(2, 1)))),
        FFloor(FSub(FDiv(wres.y, Frac(2, 1)), FDiv(vp_size.y, Frac(2, 1)))))

\* let vp_pos = if wres.cmple(tres).any() { ZERO } else { .. }.floor();
viewport_position(wres, tres, vp_size) ==
    IF FLe(wres.x, tres.x) \/ FLe(wres.y, tres.y)
    THEN Vec(FFloor(FZero), FFloor(FZero))
    ELSE Vec(FFloor(FSub(FDiv(wres.x, Frac(2, 1)), FDiv(vp_size.x, Frac(2, 1)))),
             FFloor(FSub(FDiv(wres.y, Frac(2, 1)), FDiv(vp_size.y, Frac(2, 1)))))

\* Viewport { physical_size, ..default() }: the position keeps its default
Viewport(physical_size) ==
    [physical_position |-> VZERO, physical_size |-> physical_size]

\* update_viewport with the zoom never lowered below the one cached before
update_viewport_keeping_zoom(c, wres_u) ==
    LET tres == uvec2_as_vec2(target_resolution(c))
        wres == uvec2_as_vec2(wres_u)
        zoom == FMax(viewport_zoom(wres, tres), Frac(c.zoom, 1))
        ortho_size == viewport_ortho_size(c, zoom)
        vp_size == viewport_size(tres, zoom)
        vp_pos == viewport_position(wres, tres, vp_size)
    IN  [scaling_mode |-> [mode |-> "FixedVertical", size |-> ortho_size],
         viewport |-> Some(Viewport(as_uvec2(vp_size))),
         tiled_cam |-> [c EXCEPT !.grid.tile_count = c.tile_count,
                                 !.grid.pixels_per_tile = c.pixels_per_tile,
                                 !.zoom = AsU32(zoom),
                                 !.vp_pos = as_uvec2(vp_pos),
                                 !.vp_size = as_uvec2(vp_size)]]

\* the camera, the projection's scaling mode and the camera's viewport after
\* update_viewport(tiled_cam, wres, proj, cam)
update_viewport(c, wres_u) ==
    LET tres == uvec2_as_vec2(target_resolution(c))
        wres == uvec2_as_vec2(wres_u)
        zoom == viewport_zoom(wres, tres)
        ortho_size == viewport_ortho_size(c, zoom)
        vp_size == viewport_size(tres, zoom)
        vp_pos == viewport_position(wres, tres, vp_size)
    IN  [scaling_mode |-> [mode |-> "FixedVertical", size |-> ortho_size],
         viewport |-> Some(Viewport(as_uvec2(vp_size))),
         tiled_cam |-> [c EXCEPT !.grid.tile_count = c.tile_count,
                                 !.grid.pixels_per_tile = c.pixels_per_tile,
                                 !.zoom = AsU32(zoom),
                                 !.vp_pos = as_uvec2(vp_pos),
                                 !.vp_size = as_uvec2(vp_size)]]

\* TiledCamera::screen_to_world.  The matrices are bevy's: the result is kept
\* as the normalised device coordinate they are applied to and the scale the
\* unprojected point is multiplied by.
screen_to_world(c, screen_pos_in) ==
    LET screen_size == uvec2_as_vec2(c.vp_size)
        vp_pos == uvec2_as_vec2(c.vp_pos)
        screen_pos == Vec(FRound(FSub(screen_pos_in.x, vp_pos.x)),
                          FRound(FSub(screen_pos_in.y, vp_pos.y)))
        cursor_ndc ==
            Vec(FSub(FMul(FDiv(screen_pos.x, screen_size.x), Frac(2, 1)), FOne),
                FSub(FMul(FDiv(screen_pos.y, screen_size.y), Frac(2, 1)), FOne))
    IN  Some([cursor_ndc |-> cursor_ndc,
              world_space_scale |-> world_space_scale(c.grid)])

\* the body of on_window_resized's loop over the events it reads
RECURSIVE read_resize_events(_, _, _)
read_resize_events(events, st, wres) ==
    IF events = <<>> THEN st
    ELSE read_resize_events(Tail(events),
             IF Head(events) = "primary"
             THEN update_viewport(st.tiled_cam, wres) ELSE st,
             wres)

-----------------------------------------------------------------------------
(* The camera specification: one camera entity spawned from a              *)
(* TiledCameraBundle, whose public fields are written, whose window is     *)
(* resized, and on which the plugin's two systems run in any order.        *)

\* the resolutions the primary window takes: narrow to nearly full width,
\* at the least and at the greatest height
WindowSizes == {Vec(x, y) : x \in {1, 2, MaxWin - 1}, y \in {1, MaxWin}}
WindowIds == {"primary", "other"}

\* the tile counts and pixels per tile cameras are given here
\* (a zero component is accepted like any other value: neither the
\* constructors nor the public fields check it)
CamTileCounts == {Vec(x, y) : x \in {1, MaxTiles - 1}, y \in {1, MaxTiles}}
                   \cup {Vec(0, 1)}
CamPixelsPerTile == {Vec(1, 1), Vec(MaxPpt, MaxPpt)}

\* cursor positions: half a pixel inside the window's corner, below the
\* window, and right of the window
ScreenPositions ==
    {Vec(Frac(1, 2), Frac(1, 2)),
     Vec(Frac(1, 2), Frac(-1, 1)),
     Vec(Frac(2 * MaxWin + 1, 2), Frac(1, 2))}

SpawnedCameras ==
    {TiledCamera_unit_cam(tc, ppt) : tc \in CamTileCounts, ppt \in CamPixelsPerTile}
      \cup {TiledCamera_pixel_cam(tc, ppt) : tc \in CamTileCounts, ppt \in CamPixelsPerTile}

Init ==
    /\ tiled_cam \in SpawnedCameras
    /\ window \in WindowSizes
    /\ entities = <<>>
    /\ changed = TRUE
    /\ resize_events = <<"primary">>
    /\ ortho = [mode |-> "WindowSize"]
    /\ cam_viewport = None
    /\ call = Idle
    /\ grid = None /\ proj = None /\ transform = VZERO

\* tiled_cam.tile_count = tc, through the query's Mut<TiledCamera>
SetTileCount ==
    /\ \E tc \in CamTileCounts :
         /\ tc # tiled_cam.tile_count
         /\ tiled_cam' = [tiled_cam EXCEPT !.tile_count = tc]
    /\ changed' = TRUE
    /\ call' = Idle
    /\ UNCHANGED <<resize_events, ortho, cam_viewport, window>>
    /\ UNCHANGED gridOnly

\* tiled_cam.pixels_per_tile = ppt
SetPixelsPerTile ==
    /\ \E ppt \in CamPixelsPerTile :
         /\ ppt # tiled_cam.pixels_per_tile
         /\ tiled_cam' = [tiled_cam EXCEPT !.pixels_per_tile = ppt]
    /\ changed' = TRUE
    /\ call' = Idle
    /\ UNCHANGED <<resize_events, ortho, cam_viewport, window>>
    /\ UNCHANGED gridOnly

\* TiledCamera::set_world_space
SetWorldSpace ==
    /\ \E ws \in {"Units", "Pixels"} :
         tiled_cam' = set_world_space(tiled_cam, ws)
    /\ changed' = TRUE
    /\ call' = Idle
    /\ UNCHANGED <<resize_events, ortho, cam_viewport, window>>
    /\ UNCHANGED gridOnly

\* the primary window is resized: its resolution changes and bevy sends a
\* WindowResized event for it
ResizePrimaryWindow ==
    /\ Len(resize_events) < MaxEvents
    /\ \E wres \in WindowSizes :
         /\ wres # window
         /\ window' = wres
    /\ resize_events' = Append(resize_events, "primary")
    /\ call' = Idle
    /\ UNCHANGED <<tiled_cam, changed, ortho, cam_viewport>>
    /\ UNCHANGED gridOnly

\* another window is resized: a WindowResized event with its id
ResizeOtherWindow ==
    /\ Len(resize_events) < MaxEvents
    /\ resize_events' = Append(resize_events, "other")
    /\ call' = Idle
    /\ UNCHANGED <<tiled_cam, changed, ortho, cam_viewport, window>>
    /\ UNCHANGED gridOnly

\* on_window_resized, run with events to read
OnWindowResized ==
    /\ resize_events # <<>>
    /\ LET st == read_resize_events(resize_events,
                     [scaling_mode |-> ortho, viewport |-> cam_viewport,
                      tiled_cam |-> tiled_cam], window)
           ran == \E i \in 1..Len(resize_events) : resize_events[i] = "primary"
       IN  /\ tiled_cam' = st.tiled_cam
           /\ ortho' = st.scaling_mode
           /\ cam_viewport' = st.viewport
           /\ changed' = (changed \/ ran)
           /\ call' = IF ran THEN [op |-> "update_viewport",
                                   system |-> "on_window_resized"]
                      ELSE Idle
    /\ resize_events' = <<>>
    /\ UNCHANGED window
    /\ UNCHANGED gridOnly

\* on_camera_changed, run when the query's Changed<TiledCamera> matches
OnCameraChanged ==
    /\ changed
    /\ LET st == update_viewport(tiled_cam, window)
       IN  /\ tiled_cam' = st.tiled_cam
           /\ ortho' = st.scaling_mode
           /\ cam_viewport' = st.viewport
    /\ changed' = FALSE
    /\ call' = [op |-> "update_viewport", system |-> "on_camera_changed"]
    /\ UNCHANGED <<resize_events, window>>
    /\ UNCHANGED gridOnly

\* TiledCamera::screen_to_world, called by the app with a cursor position
ScreenToWorld ==
    /\ \E screen_pos \in ScreenPositions :
         call' = [op |-> "screen_to_world", screen_pos |-> screen_pos,
                  result |-> screen_to_world(tiled_cam, screen_pos)]
    /\ UNCHANGED <<tiled_cam, changed, resize_events, ortho, cam_viewport, window>>
    /\ UNCHANGED gridOnly

Next ==
    \/ SetTileCount
    \/ SetPixelsPerTile
    \/ SetWorldSpace
    \/ ResizePrimaryWindow
    \/ ResizeOtherWindow
    \/ OnWindowResized
    \/ OnCameraChanged
    \/ ScreenToWorld

Spec == Init /\ [][Next]_vars

-----------------------------------------------------------------------------
(* Rect and RectGridIterator (src/src/rect.rs).  Coordinates are fixed     *)
(* point numbers like the positions above.                                 *)

\* Vec2::floor().as_uvec2(): a negative component becomes 0
floor_as_uvec2(v) ==
    Vec(IF Floor(v.x) < 0 THEN 0 ELSE Floor(v.x),
        IF Floor(v.y) < 0 THEN 0 ELSE Floor(v.y))

Rect_from_extents(min, max) == [min |-> min, max |-> max]

Rect_from_position_size(pos, size) == [min |-> pos, max |-> VAdd(pos, size)]

Rect_size(r) == VSub(r.max, r.min)

Rect_grid_size(r) == floor_as_uvec2(Rect_size(r))

Rect_grid_min(r) == floor_as_ivec2(r.min)

Rect_grid_max(r) == floor_as_ivec2(r.max)

\* the remaining constructors and the accessors they are read back with
Rect_from_grid_position_size(grid_pos, grid_size) ==
    [min |-> as_vec2(grid_pos), max |-> as_vec2(VAdd(grid_pos, grid_size))]

Rect_from_grid_extents(min, max) == [min |-> as_vec2(min), max |-> as_vec2(max)]

\* let min = size / 2.0; let max = min + size;  (center is not read).
\* Sizes are whole numbers of half units, so the halving is exact.
Rect_from_center_size(center, size) ==
    LET min == Vec(size.x \div 2, size.y \div 2)
    IN  [min |-> min, max |-> VAdd(min, size)]

\* the same on integers: let min = size / 2;
Rect_from_grid_center_size(center, size) ==
    LET min == Vec(IDiv(size.x, 2), IDiv(size.y, 2))
    IN  [min |-> as_vec2(min), max |-> as_vec2(VAdd(min, size))]

Rect_position(r) == r.min

Rect_grid_position(r) == floor_as_uvec2(Rect_position(r))

Rect_center(r) ==
    LET size == Rect_size(r)
    IN  VAdd(r.min, Vec(size.x \div 2, size.y \div 2))

Rect_grid_center(r) ==
    LET size == Rect_grid_size(r)
    IN  VAdd(Rect_grid_min(r), Vec(IDiv(size.x, 2), IDiv(size.y, 2)))

\* the test with <= and >= in place of < and >
Rect_overlaps_strict(a, b) ==
    ~(\/ (a.max.x <= b.min.x \/ a.max.y <= b.min.y)
      \/ (a.min.x >= b.max.x \/ a.min.y >= b.max.y))

\* !(max.cmplt(other.min).any() || min.cmpgt(other.max).any())
Rect_overlaps(a, b) ==
    ~(\/ (a.max.x < b.min.x \/ a.max.y < b.min.y)
      \/ (a.min.x > b.max.x \/ a.min.y > b.max.y))

Rect_grid_overlaps(a, b) ==
    LET min == Rect_grid_min(a)
        max == Rect_grid_max(a)
    IN  ~(\/ (max.x < Rect_grid_min(b).x \/ max.y < Rect_grid_min(b).y)
          \/ (min.x > Rect_grid_max(b).x \/ min.y > Rect_grid_max(b).y))

RectGridIterator_from_rect(rect) ==
    LET size == Rect_grid_size(rect)
    IN  [min |-> Rect_grid_min(rect),
         width |-> size.x,
         current |-> 0,
         length |-> size.x * size.y]

\* RectGridIterator::next: the iterator afterwards and the item returned
RectGridIterator_next(it) ==
    IF it.current < it.length
    THEN [iter |-> [it EXCEPT !.current = it.current + 1],
          item |-> Some(VAdd(it.min, Vec(it.current % it.width,
                                         it.current \div it.width)))]
    ELSE [iter |-> it, item |-> None]

-----------------------------------------------------------------------------
(* The rect specification: rects are built from extents and asked whether  *)
(* they overlap, or iterated over.                                         *)

\* extents of the rects compared: -0.5, 0, 0.5, .. up to MaxRect halves
RectCoords == {k * HalfUnit : k \in -1..MaxRect}
OverlapRects ==
    {Rect_from_extents(Vec(x0, y0), Vec(x1, y1)) :
        x0 \in RectCoords, y0 \in RectCoords, x1 \in RectCoords, y1 \in RectCoords}

\* the rects iterated over: a position at or half a cell below the origin
\* and a size of -0.5 to MaxTiles cells in steps of a half
IterRects ==
    {Rect_from_position_size(Vec(x, y), Vec(w, h)) :
        x \in {-HalfUnit, 0}, y \in {-HalfUnit, 0},
        w \in {k * HalfUnit : k \in -1..(2 * MaxTiles)},
        h \in {k * HalfUnit : k \in -1..(2 * MaxTiles)}}

RectInit ==
    /\ call = Idle
    /\ grid = None /\ proj = None /\ tiled_cam = None /\ transform = VZERO
    /\ changed = FALSE
    /\ resize_events = <<>>
    /\ ortho = [mode |-> "WindowSize"]
    /\ cam_viewport = None
    /\ window = Vec(1, 1)
    /\ entities = <<>>

\* Rect::overlaps
RectOverlaps ==
    /\ call = Idle
    /\ \E a \in OverlapRects, b \in OverlapRects :
         call' = [op |-> "overlaps", a |-> a, b |-> b,
                  result |-> Rect_overlaps(a, b)]
    /\ UNCHANGED <<grid, proj, tiled_cam, transform>>
    /\ UNCHANGED camOnly

\* Rect::grid_overlaps
RectGridOverlaps ==
    /\ call = Idle
    /\ \E a \in OverlapRects, b \in OverlapRects :
         call' = [op |-> "grid_overlaps", a |-> a, b |-> b,
                  result |-> Rect_grid_overlaps(a, b)]
    /\ UNCHANGED <<grid, proj, tiled_cam, transform>>
    /\ UNCHANGED camOnly

\* Rect::iter
RectIter ==
    /\ call = Idle
    /\ \E r \in IterRects :
         call' = [op |-> "rect_iter", rect |-> r,
                  iter |-> RectGridIterator_from_rect(r),
                  yielded |-> <<>>, nones |-> 0]
    /\ UNCHANGED <<grid, proj, tiled_cam, transform>>
    /\ UNCHANGED camOnly

\* RectGridIterator::next on the iterator in use
RectIterNext ==
    /\ call.op = "rect_iter"
    /\ call.nones < MaxNones
    /\ LET r == RectGridIterator_next(call.iter)
       IN  call' = [call EXCEPT
                      !.iter = r.iter,
                      !.yielded = IF r.item.some THEN Append(@, r.item.val) ELSE @,
                      !.nones = IF r.item.some THEN @ ELSE @ + 1]
    /\ UNCHANGED <<grid, proj, tiled_cam, transform>>
    /\ UNCHANGED camOnly

\* the arguments of the constructors: positions and centres from RectCoords,
\* sizes of 0 to MaxRect + 1 halves, grid cells from -1 and grid sizes from 0
RectSizes == {k * HalfUnit : k \in 0..(MaxRect + 1)}
RectCells == -1..MaxRect
RectGridSizes == 0..(MaxRect + 1)

\* Rect::from_position_size, read back with position() and size()
RectFromPositionSize ==
    /\ call = Idle
    /\ \E x \in RectCoords, y \in RectCoords, w \in RectSizes, h \in RectSizes :
         LET r == Rect_from_position_size(Vec(x, y), Vec(w, h))
         IN  call' = [op |-> "from_position_size",
                      pos |-> Vec(x, y), size |-> Vec(w, h), rect |-> r,
                      position |-> Rect_position(r), got_size |-> Rect_size(r)]
    /\ UNCHANGED <<grid, proj, tiled_cam, transform>>
    /\ UNCHANGED camOnly

\* Rect::from_grid_position_size, read back with grid_position() and
\* grid_size()
RectFromGridPositionSize ==
    /\ call = Idle
    /\ \E x \in RectCells, y \in RectCells,
          w \in RectGridSizes, h \in RectGridSizes :
         LET r == Rect_from_grid_position_size(Vec(x, y), Vec(w, h))
         IN  call' = [op |-> "from_grid_position_size",
                      pos |-> Vec(x, y), size |-> Vec(w, h), rect |-> r,
                      position |-> Rect_grid_position(r),
                      got_size |-> Rect_grid_size(r)]
    /\ UNCHANGED <<grid, proj, tiled_cam, transform>>
    /\ UNCHANGED camOnly

\* Rect::from_extents, read back from the fields min and max
RectFromExtents ==
    /\ call = Idle
    /\ \E x0 \in RectCoords, y0 \in RectCoords,
          x1 \in RectCoords, y1 \in RectCoords :
         LET r == Rect_from_extents(Vec(x0, y0), Vec(x1, y1))
         IN  call' = [op |-> "from_extents",
                      min |-> Vec(x0, y0), max |-> Vec(x1, y1), rect |-> r]
    /\ UNCHANGED <<grid, proj, tiled_cam, transform>>
    /\ UNCHANGED camOnly

\* Rect::from_grid_extents, read back with grid_min() and grid_max()
RectFromGridExtents ==
    /\ call = Idle
    /\ \E x0 \in RectCells, y0 \in RectCells,
          x1 \in RectCells, y1 \in RectCells :
         LET r == Rect_from_grid_extents(Vec(x0, y0), Vec(x1, y1))
         IN  call' = [op |-> "from_grid_extents",
                      min |-> Vec(x0, y0), max |-> Vec(x1, y1), rect |-> r,
                      grid_min |-> Rect_grid_min(r),
                      grid_max |-> Rect_grid_max(r)]
    /\ UNCHANGED <<grid, proj, tiled_cam, transform>>
    /\ UNCHANGED camOnly

\* Rect::from_center_size, read back with center() and size()
RectFromCenterSize ==
    /\ call = Idle
    /\ \E x \in RectCoords, y \in RectCoords, w \in RectSizes, h \in RectSizes :
         LET r == Rect_from_center_size(Vec(x, y), Vec(w, h))
         IN  call' = [op |-> "from_center_size",
                      center |-> Vec(x, y), size |-> Vec(w, h), rect |-> r,
                      got_center |-> Rect_center(r), got_size |-> Rect_size(r)]
    /\ UNCHANGED <<grid, proj, tiled_cam, transform>>
    /\ UNCHANGED camOnly

\* Rect::from_grid_center_size, read back with grid_center() and grid_size()
RectFromGridCenterSize ==
    /\ call = Idle
    /\ \E x \in RectCells, y \in RectCells,
          w \in RectGridSizes, h \in RectGridSizes :
         LET r == Rect_from_grid_center_size(Vec(x, y), Vec(w, h))
         IN  call' = [op |-> "from_grid_center_size",
                      center |-> Vec(x, y), size |-> Vec(w, h), rect |-> r,
                      got_center |-> Rect_grid_center(r),
                      got_size |-> Rect_grid_size(r)]
    /\ UNCHANGED <<grid, proj, tiled_cam, transform>>
    /\ UNCHANGED camOnly

RectNext ==
    \/ RectOverlaps
    \/ RectGridOverlaps
    \/ RectIter
    \/ RectIterNext
    \/ RectFromPositionSize
    \/ RectFromGridPositionSize
    \/ RectFromExtents
    \/ RectFromGridExtents
    \/ RectFromCenterSize
    \/ RectFromGridCenterSize
    \/ Return

RectSpec == RectInit /\ [][RectNext]_vars

-----------------------------------------------------------------------------
(* TiledCameraBundle (src/src/lib.rs): the builder.  The bundle's          *)
(* tiled_camera is tiled_cam and the translation of its transform is       *)
(* transform; call holds the last builder call and the world space the     *)
(* caller chose last.                                                      *)

Bundle_new == TiledCamera_default

Bundle_with_world_space(c, ws) == set_world_space(c, ws)

\* with_tile_count writing the camera's field only
Bundle_with_tile_count_camera_only(c, tile_count) ==
    [c EXCEPT !.tile_count = tile_count]

Bundle_with_tile_count(c, tile_count) ==
    [c EXCEPT !.tile_count = tile_count, !.grid.tile_count = tile_count]

Bundle_with_pixels_per_tile(c, ppt) ==
    [c EXCEPT !.pixels_per_tile = ppt, !.grid.pixels_per_tile = ppt]

Bundle_unit_cam(tile_count, pixels_per_tile) ==
    Bundle_with_pixels_per_tile(
        Bundle_with_tile_count(
            Bundle_with_world_space(Bundle_new, "Units"), tile_count),
        pixels_per_tile)

Bundle_pixel_cam(tile_count, pixels_per_tile) ==
    Bundle_with_pixels_per_tile(
        Bundle_with_tile_count(
            Bundle_with_world_space(Bundle_new, "Pixels"), tile_count),
        pixels_per_tile)

BundleInit ==
    /\ tiled_cam = Bundle_new
    /\ call = [op |-> "new", chosen |-> "Units"]
    /\ transform = VZERO
    /\ grid = None /\ proj = None
    /\ changed = FALSE
    /\ resize_events = <<>>
    /\ ortho = [mode |-> "WindowSize"]
    /\ cam_viewport = None
    /\ window = Vec(1, 1)
    /\ entities = <<>>

\* TiledCameraBundle::new
BundleNew ==
    /\ tiled_cam' = Bundle_new
    /\ transform' = VZERO
    /\ call' = [op |-> "new", chosen |-> "Units"]
    /\ UNCHANGED <<grid, proj>>
    /\ UNCHANGED camOnly

\* TiledCameraBundle::unit_cam
BundleUnitCam ==
    /\ \E tc \in TileCounts, ppt \in PixelsPerTile :
         tiled_cam' = Bundle_unit_cam(tc, ppt)
    /\ transform' = VZERO
    /\ call' = [op |-> "unit_cam", chosen |-> "Units"]
    /\ UNCHANGED <<grid, proj>>
    /\ UNCHANGED camOnly

\* TiledCameraBundle::pixel_cam
BundlePixelCam ==
    /\ \E tc \in TileCounts, ppt \in PixelsPerTile :
         tiled_cam' = Bundle_pixel_cam(tc, ppt)
    /\ transform' = VZERO
    /\ call' = [op |-> "pixel_cam", chosen |-> "Pixels"]
    /\ UNCHANGED <<grid, proj>>
    /\ UNCHANGED camOnly

\* TiledCameraBundle::with_world_space
WithWorldSpace ==
    /\ \E ws \in {"Units", "Pixels"} :
         /\ tiled_cam' = Bundle_with_world_space(tiled_cam, ws)
         /\ call' = [op |-> "with_world_space", chosen |-> ws]
    /\ UNCHANGED <<grid, proj, transform>>
    /\ UNCHANGED camOnly

\* TiledCameraBundle::with_tile_count
WithTileCount ==
    /\ \E tc \in TileCounts :
         tiled_cam' = Bundle_with_tile_count(tiled_cam, tc)
    /\ call' = [op |-> "with_tile_count", chosen |-> call.chosen]
    /\ UNCHANGED <<grid, proj, transform>>
    /\ UNCHANGED camOnly

\* TiledCameraBundle::with_pixels_per_tile
WithPixelsPerTile ==
    /\ \E ppt \in PixelsPerTile :
         tiled_cam' = Bundle_with_pixels_per_tile(tiled_cam, ppt)
    /\ call' = [op |-> "with_pixels_per_tile", chosen |-> call.chosen]
    /\ UNCHANGED <<grid, proj, transform>>
    /\ UNCHANGED camOnly

\* TiledCameraBundle::with_camera_position
WithCameraPosition ==
    /\ \E pos \in CamPositions : transform' = pos
    /\ call' = [op |-> "with_camera_position", chosen |-> call.chosen]
    /\ UNCHANGED <<grid, proj, tiled_cam>>
    /\ UNCHANGED camOnly

BundleNext ==
    \/ BundleNew
    \/ BundleUnitCam
    \/ BundlePixelCam
    \/ WithWorldSpace
    \/ WithTileCount
    \/ WithPixelsPerTile
    \/ WithCameraPosition

BundleSpec == BundleInit /\ [][BundleNext]_vars

-----------------------------------------------------------------------------
(* An app with several cameras: entities holds, for each camera entity,    *)
(* its TiledCamera, bevy's Changed<TiledCamera> flag, the scaling mode of  *)
(* its OrthographicProjection and its Camera.viewport.  The plugin's two   *)
(* systems run on them in any order.                                       *)

\* a newly spawned camera entity: its components count as changed
Entity(c) ==
    [tiled_cam |-> c, changed |-> TRUE,
     scaling_mode |-> [mode |-> "WindowSize"], viewport |-> None]

\* the cameras spawned: one tile wide and two tiles wide, one pixel per tile
MultiCameras ==
    {TiledCamera_unit_cam(Vec(1, 1), Vec(1, 1)),
     TiledCamera_unit_cam(Vec(2, 1), Vec(1, 1))}

\* update_viewport on the components of one entity, through Mut<TiledCamera>
update_entity(e, wres) ==
    LET st == update_viewport(e.tiled_cam, wres)
    IN  [tiled_cam |-> st.tiled_cam, changed |-> TRUE,
         scaling_mode |-> st.scaling_mode, viewport |-> st.viewport]

\* the loop of on_window_resized: q_cam.get_single_mut() is Ok only when
\* exactly one entity matches the query
RECURSIVE multi_read_resize_events(_, _, _)
multi_read_resize_events(events, es, wres) ==
    IF events = <<>> THEN es
    ELSE multi_read_resize_events(Tail(events),
             IF Head(events) = "primary" /\ Len(es) = 1
             THEN <<update_entity(es[1], wres)>> ELSE es,
             wres)

\* the loop of on_camera_changed over the entities Changed<TiledCamera> matches
on_camera_changed(es, wres) ==
    [i \in 1..Len(es) |->
        IF es[i].changed
        THEN [update_entity(es[i], wres) EXCEPT !.changed = FALSE]
        ELSE es[i]]

MultiInit ==
    /\ entities \in {<<Entity(c)>> : c \in MultiCameras}
    /\ window \in WindowSizes
    /\ resize_events = <<"primary">>
    /\ call = Idle
    /\ tiled_cam = None
    /\ changed = FALSE
    /\ ortho = [mode |-> "WindowSize"]
    /\ cam_viewport = None
    /\ grid = None /\ proj = None /\ transform = VZERO

\* commands.spawn_bundle(TiledCameraBundle ...) for a further camera
SpawnCamera ==
    /\ Len(entities) < MaxEntities
    /\ \E c \in MultiCameras : entities' = Append(entities, Entity(c))
    /\ call' = Idle
    /\ UNCHANGED <<grid, proj, tiled_cam, transform>>
    /\ UNCHANGED <<changed, resize_events, ortho, cam_viewport, window>>

\* tiled_cam.tile_count = tc on one of the cameras
MultiSetTileCount ==
    /\ \E i \in 1..Len(entities), c \in MultiCameras :
         /\ c.tile_count # entities[i].tiled_cam.tile_count
         /\ entities' = [entities EXCEPT ![i].tiled_cam.tile_count = c.tile_count,
                                         ![i].changed = TRUE]
    /\ call' = Idle
    /\ UNCHANGED <<grid, proj, tiled_cam, transform>>
    /\ UNCHANGED <<changed, resize_events, ortho, cam_viewport, window>>

\* on_window_resized, run with events to read
MultiOnWindowResized ==
    /\ resize_events # <<>>
    /\ entities' = multi_read_resize_events(resize_events, entities, window)
    /\ call' = [op |-> "on_window_resized",
                primary |-> \E i \in 1..Len(resize_events) :
                               resize_events[i] = "primary",
                before |-> entities]
    /\ resize_events' = <<>>
    /\ UNCHANGED <<grid, proj, tiled_cam, transform>>
    /\ UNCHANGED <<changed, ortho, cam_viewport, window>>

\* on_camera_changed, run when Changed<TiledCamera> matches an entity
MultiOnCameraChanged ==
    /\ \E i \in 1..Len(entities) : entities[i].changed
    /\ entities' = on_camera_changed(entities, window)
    /\ call' = [op |-> "on_camera_changed", before |-> entities]
    /\ UNCHANGED <<grid, proj, tiled_cam, transform>>
    /\ UNCHANGED <<changed, resize_events, ortho, cam_viewport, window>>

MultiNext ==
    \/ SpawnCamera
    \/ MultiSetTileCount
    \/ ResizePrimaryWindow
    \/ ResizeOtherWindow
    \/ MultiOnWindowResized
    \/ MultiOnCameraChanged

MultiSpec == MultiInit /\ [][MultiNext]_vars

-----------------------------------------------------------------------------
(* TiledProjection::update (src/src/projection.rs), the CameraProjection   *)
(* method bevy calls with the window's size.                               *)

\* let round_to_multiple = |value: f32, step: f32| step * (value / step).round();
round_to_multiple(value, step) == FMul(step, FRound(FDiv(value, step)))

\* the zoom and the world size of the view that update computes
Proj_update_zoom(p, width, height) ==
    LET target_size == Vec(p.target_tile_count.x * p.pixels_per_tile,
                           p.target_tile_count.y * p.pixels_per_tile)
        window_size == Vec(AsU32(width), AsU32(height))
        zoom == Vec(Max2(window_size.x \div target_size.x, 1),
                    Max2(window_size.y \div target_size.y, 1))
    IN  Min2(zoom.x, zoom.y)

\* update with the halves of a centred view left unrounded
Proj_update_unrounded(p, width, height) ==
    LET aspect == FDiv(width, height)
        zoom == Proj_update_zoom(p, width, height)
        h == FDiv(height, Frac(zoom * p.pixels_per_tile, 1))
        w == FMul(h, aspect)
        half_width == FDiv(w, Frac(2, 1))
        half_height == FDiv(h, Frac(2, 1))
    IN  IF p.centered
        THEN [p EXCEPT !.zoom = zoom,
                       !.left = FNeg(half_width),
                       !.right = FAdd(FNeg(half_width), w),
                       !.bottom = FNeg(half_height),
                       !.top = FAdd(FNeg(half_height), h)]
        ELSE [p EXCEPT !.zoom = zoom,
                       !.left = FZero, !.bottom = FZero,
                       !.right = w, !.top = h]

Proj_update(p, width, height) ==
    LET aspect == FDiv(width, height)
        zoom == Proj_update_zoom(p, width, height)
        h == FDiv(height, Frac(zoom * p.pixels_per_tile, 1))
        w == FMul(h, aspect)
        pixel_size == FDiv(FOne, FMul(Frac(p.pixels_per_tile, 1), Frac(zoom, 1)))
        half_width == round_to_multiple(FDiv(w, Frac(2, 1)), pixel_size)
        half_height == round_to_multiple(FDiv(h, Frac(2, 1)), pixel_size)
    IN  IF p.centered
        THEN [p EXCEPT !.zoom = zoom,
                       !.left = FNeg(half_width),
                       !.right = FAdd(FNeg(half_width), w),
                       !.bottom = FNeg(half_height),
                       !.top = FAdd(FNeg(half_height), h)]
        ELSE [p EXCEPT !.zoom = zoom,
                       !.left = FZero, !.bottom = FZero,
                       !.right = w, !.top = h]

\* the window sizes update is called with, and the pixels per tile given:
\* small ones and the default of 8
UpdateSizes == {Frac(n, 1) : n \in 1..MaxWin}
ProjPixelsPerTile == (1..MaxPpt) \cup {8}

UpdateInit ==
    /\ proj \in Projections
    /\ grid = None /\ tiled_cam = None /\ transform = VZERO
    /\ call = Idle
    /\ changed = FALSE
    /\ resize_events = <<>>
    /\ ortho = [mode |-> "WindowSize"]
    /\ cam_viewport = None
    /\ window = Vec(1, 1)
    /\ entities = <<>>

\* proj.pixels_per_tile = ppt, a public field
ProjSetPixelsPerTile ==
    /\ call = Idle /\ proj # None
    /\ \E ppt \in ProjPixelsPerTile : proj' = [proj EXCEPT !.pixels_per_tile = ppt]
    /\ UNCHANGED <<grid, tiled_cam, transform, call>>
    /\ UNCHANGED camOnly

\* CameraProjection::update(width, height)
ProjUpdate ==
    /\ call = Idle /\ proj # None
    /\ \E width \in UpdateSizes, height \in UpdateSizes :
         /\ proj' = Proj_update(proj, width, height)
         /\ call' = [op |-> "proj.update", width |-> width, height |-> height]
    /\ UNCHANGED <<grid, tiled_cam, transform>>
    /\ UNCHANGED camOnly

UpdateNext ==
    \/ ProjNew
    \/ ProjUncentered
    \/ ProjSetTileCount
    \/ ProjSetCentered
    \/ ProjSetPixelsPerTile
    \/ ProjUpdate
    \/ Return

UpdateSpec == UpdateInit /\ [][UpdateNext]_vars

-----------------------------------------------------------------------------
(* PositionGrid (src/src/grid.rs).  The variable grid holds the struct;    *)
(* sizes and positions are fixed point numbers like the positions above.   *)

\* new: the half size is the literal (0.5, 0.5) whatever the cell size
PositionGrid_new(cell_size) ==
    [cell_size |-> cell_size, cell_half_size |-> Vec(HalfUnit, HalfUnit)]

\* set_cell_size: self.cell_half_size = self.cell_size / 2.0.
\* Cell sizes are whole numbers of half units, so the halving is exact.
PositionGrid_set_cell_size(g, size) ==
    [g EXCEPT !.cell_size = size,
              !.cell_half_size = Vec(size.x \div 2, size.y \div 2)]

\* (pos / cell_size).floor().as_ivec2(), for a positive cell size
PositionGrid_to_cell(g, pos) ==
    Vec(FloorDiv(pos.x, g.cell_size.x), FloorDiv(pos.y, g.cell_size.y))

\* cell_pos.as_vec2() * cell_size
PositionGrid_to_local(g, cell_pos) ==
    Vec(cell_pos.x * g.cell_size.x, cell_pos.y * g.cell_size.y)

\* to_local(cell_pos) + cell_half_size
PositionGrid_cell_to_cell_center(g, cell_pos) ==
    VAdd(PositionGrid_to_local(g, cell_pos), g.cell_half_size)

\* to_cell(local_pos).as_vec2() * cell_size
PositionGrid_pos_snap(g, local_pos) ==
    LET cell == PositionGrid_to_cell(g, local_pos)
    IN  Vec(cell.x * g.cell_size.x, cell.y * g.cell_size.y)

\* cell sizes of a half, one and two units on either axis
CellSizes ==
    {Vec(w, h) : w \in {HalfUnit, Units(1), Units(2)},
                 h \in {HalfUnit, Units(1), Units(2)}}

\* the cells and the positions asked about: up to MaxIdx cells and units
\* either side of the origin, the positions in steps of a quarter unit
CellIndices == {Vec(x, y) : x \in -MaxIdx..MaxIdx, y \in -MaxIdx..MaxIdx}
CellPositions ==
    {Vec(x, y) : x \in -Units(MaxIdx)..Units(MaxIdx),
                 y \in -Units(MaxIdx)..Units(MaxIdx)}

\* Default for PositionGrid: new((1.0, 1.0))
PosGridInit ==
    /\ grid = PositionGrid_new(Vec(Units(1), Units(1)))
    /\ call = Idle
    /\ proj = None /\ tiled_cam = None /\ transform = VZERO
    /\ changed = FALSE
    /\ resize_events = <<>>
    /\ ortho = [mode |-> "WindowSize"]
    /\ cam_viewport = None
    /\ window = Vec(1, 1)
    /\ entities = <<>>

\* PositionGrid::new: the grid is replaced by a newly built one
PosGridNew ==
    /\ call = Idle
    /\ \E cs \in CellSizes :
         /\ grid' = PositionGrid_new(cs)
         /\ call' = [op |-> "grid.new", cell_size |-> cs]
    /\ UNCHANGED <<proj, tiled_cam, transform>>
    /\ UNCHANGED camOnly

\* PositionGrid::set_cell_size
PosGridSetCellSize ==
    /\ call = Idle
    /\ \E cs \in CellSizes :
         /\ grid' = PositionGrid_set_cell_size(grid, cs)
         /\ call' = [op |-> "grid.set_cell_size", cell_size |-> cs]
    /\ UNCHANGED <<proj, tiled_cam, transform>>
    /\ UNCHANGED camOnly

\* PositionGrid::to_cell
PosGridToCell ==
    /\ call = Idle
    /\ \E p \in CellPositions :
         call' = [op |-> "grid.to_cell", pos |-> p,
                  result |-> PositionGrid_to_cell(grid, p)]
    /\ UNCHANGED <<grid, proj, tiled_cam, transform>>
    /\ UNCHANGED camOnly

\* PositionGrid::pos_snap
PosGridPosSnap ==
    /\ call = Idle
    /\ \E p \in CellPositions :
         call' = [op |-> "grid.pos_snap", pos |-> p,
                  result |-> PositionGrid_pos_snap(grid, p)]
    /\ UNCHANGED <<grid, proj, tiled_cam, transform>>
    /\ UNCHANGED camOnly

\* PositionGrid::cell_to_cell_center
PosGridCellToCellCenter ==
    /\ call = Idle
    /\ \E c \in CellIndices :
         call' = [op |-> "grid.cell_to_cell_center", cell |-> c,
                  result |-> PositionGrid_cell_to_cell_center(grid, c)]
    /\ UNCHANGED <<grid, proj, tiled_cam, transform>>
    /\ UNCHANGED camOnly

PosGridNext ==
    \/ PosGridNew
    \/ PosGridSetCellSize
    \/ PosGridToCell
    \/ PosGridPosSnap
    \/ PosGridCellToCellCenter
    \/ Return

PosGridSpec == PosGridInit /\ [][PosGridNext]_vars

-----------------------------------------------------------------------------
(* What the statements below compare the operations against, written from  *)
(* the statements themselves rather than from the code.                    *)

\* lo <= i < lo + n, with lo = 0 (uncentred) or -(n halved, rounded to zero)
AxisInRange(n, centered, i) ==
    LET lo == IF centered THEN -(n \div 2) ELSE 0
    IN  lo <= i /\ i < lo + n

InRange(tile_count, centered, i) ==
    /\ AxisInRange(tile_count.x, centered, i.x)
    /\ AxisInRange(tile_count.y, centered, i.y)

\* the corner of tile i on one axis: i, or i - 0.5 on a centred odd axis
AxisCorner(n, centered, i) ==
    IF centered /\ n % 2 = 1 THEN Units(i) - HalfUnit ELSE Units(i)

Corner(tile_count, centered, i) ==
    Vec(AxisCorner(tile_count.x, centered, i.x),
        AxisCorner(tile_count.y, centered, i.y))

\* k is the index floor gives for the local position p: corner(k) <= p < corner(k) + 1
IsFloorIndex(tile_count, centered, p, k) ==
    LET c == Corner(tile_count, centered, k)
    IN  /\ c.x <= p.x /\ p.x < c.x + Units(1)
        /\ c.y <= p.y /\ p.y < c.y + Units(1)

\* the same for a TiledCamera, whose tiles are scale world units wide
IsScaledFloorIndex(tile_count, scale, p, k) ==
    LET c == Corner(tile_count, TRUE, k)
    IN  /\ c.x * scale.x <= p.x /\ p.x < (c.x + Units(1)) * scale.x
        /\ c.y * scale.y <= p.y /\ p.y < (c.y + Units(1)) * scale.y

\* every index that can be in the bounds of a grid of at most MaxTiles tiles
IndexBox == {Vec(x, y) : x \in -MaxTiles..MaxTiles, y \in -MaxTiles..MaxTiles}

GridOps == {"tile_to_world", "tile_to_tile_center_world"}
ProjOps == {"proj.tile_to_world", "proj.tile_center_world"}
CamOps == {"index_to_tile_pos", "index_to_tile_center"}

-----------------------------------------------------------------------------
(* C1: round trip on SizedGrid: for every tile count, camera position and  *)
(* in-bounds tile index i, world_to_tile(t, tile_to_world(t, i)) is        *)
(* Some(i).                                                                *)
C1_RoundTrip ==
    (call.op = "round_trip" /\ InRange(grid.tile_count, grid.centered, call.tile))
        => /\ call.world.some
           /\ call.result = Some(call.tile)

\* a round trip through a centred grid with an odd axis and a moved camera
C1_Witness ==
    /\ call.op = "round_trip"
    /\ grid.centered /\ grid.tile_count = Vec(3, 2)
    /\ transform = Vec(1, -1)
    /\ call.tile = Vec(-1, 0)
    /\ call.result = Some(Vec(-1, 0))

C9_TileInBounds ==
    /\ call.op = "tile_in_bounds"
         => /\ call.result = InRange(grid.tile_count, grid.centered, call.tile)
            /\ Cardinality({i \in IndexBox : tile_in_bounds(grid, i)})
                 = grid.tile_count.x * grid.tile_count.y
    /\ call.op = "proj.tile_in_bounds"
         => /\ call.result
                 = InRange(proj.target_tile_count, proj.centered, call.tile)
            /\ Cardinality({i \in IndexBox : Proj_tile_in_bounds(proj, i)})
                 = proj.target_tile_count.x * proj.target_tile_count.y

\* tile count 3, centred: -1 is in bounds (and -2 is not)
C9_Witness ==
    /\ call.op = "tile_in_bounds"
    /\ grid.centered /\ grid.tile_count = Vec(3, 3)
    /\ call.tile = Vec(-1, 1)
    /\ call.result = TRUE

(* C10: the local corner of tile i is, per axis, i for an uncentred grid,  *)
(* i for a centred grid with an even tile count on the axis, and i - 0.5   *)
(* for a centred grid with an odd tile count on the axis.                  *)
C10_TileToLocal ==
    /\ call.op = "tile_to_local"
         => call.result = Corner(grid.tile_count, grid.centered, call.tile)
    /\ call.op = "proj.tile_to_local"
         => call.result = Corner(proj.target_tile_count, proj.centered, call.tile)

\* a centred 3x2 grid maps index (0,0) to (-0.5, 0)
C10_Witness ==
    /\ call.op = "tile_to_local"
    /\ grid.centered /\ grid.tile_count = Vec(3, 2)
    /\ call.tile = VZERO
    /\ call.result = Vec(-HalfUnit, 0)


-----------------------------------------------------------------------------
(* The viewport recompute, as the statements describe it.  These are       *)
(* evaluated in the state a recompute leaves: no field has been written    *)
(* and the window has not been resized since.                              *)

AfterRecompute == call.op = "update_viewport"


\* tile_count * pixels_per_tile of the camera's public fields
TargetRes ==
    Vec(tiled_cam.tile_count.x * tiled_cam.pixels_per_tile.x,
        tiled_cam.tile_count.y * tiled_cam.pixels_per_tile.y)

\* max(1, min(floor(window.x / target.x), floor(window.y / target.y)))
IntegerZoom ==
    Max2(1, Min2(window.x \div TargetRes.x, window.y \div TargetRes.y))

\* C2: after every viewport recompute, for every window resolution and
\* every target resolution with non-zero components, the cached zoom is the
\* integer max(1, min(floor(window.x / target.x), floor(window.y / target.y))),
\* and so it is at least 1 even when the window is smaller than the target.
C2_CachedZoom ==
    (AfterRecompute /\ TargetRes.x # 0 /\ TargetRes.y # 0) =>
        /\ tiled_cam.zoom = IntegerZoom
        /\ tiled_cam.zoom >= 1

\* C2's case: a recompute for a window smaller than the target on an axis
\* leaves the zoom at 1
C2_Witness ==
    /\ AfterRecompute
    /\ window.x < TargetRes.x
    /\ window.y >= 2 * TargetRes.y
    /\ tiled_cam.zoom = 1

\* C3, as stated: after every viewport recompute the cached viewport size and
\* the size written to the camera's viewport equal target_resolution() times
\* the cached integer zoom() on both axes.
C3_AsStated ==
    AfterRecompute =>
        /\ tiled_cam.vp_size = Vec(TargetRes.x * tiled_cam.zoom,
                                   TargetRes.y * tiled_cam.zoom)
        /\ cam_viewport.some
        /\ cam_viewport.val.physical_size = Vec(TargetRes.x * tiled_cam.zoom,
                                                TargetRes.y * tiled_cam.zoom)

\* C4, as stated: after every viewport recompute the viewport size is at most
\* the window resolution on both axes, windows smaller than the target
\* resolution included.
C4_AsStated ==
    AfterRecompute =>
        /\ tiled_cam.vp_size.x <= window.x
        /\ tiled_cam.vp_size.y <= window.y

\* C4, amended: after a recompute the viewport size is at most the window
\* resolution on both axes when the window is at least the target resolution
\* on both axes; when the window is smaller than the target on an axis the
\* viewport size is the target resolution and exceeds the window there.
C4_ViewportFits ==
    AfterRecompute =>
        IF window.x >= TargetRes.x /\ window.y >= TargetRes.y
        THEN /\ tiled_cam.vp_size.x <= window.x
             /\ tiled_cam.vp_size.y <= window.y
        ELSE /\ tiled_cam.vp_size = TargetRes
             /\ \/ tiled_cam.vp_size.x > window.x
                \/ tiled_cam.vp_size.y > window.y

\* C4's case: a recompute for a window narrower than the target
C4_Witness ==
    /\ AfterRecompute
    /\ window.x < TargetRes.x
    /\ window.y > TargetRes.y
    /\ tiled_cam.vp_size.x > window.x

\* C5, as stated: after a recompute the viewport position is (0,0) if the
\* window is smaller than or equal to the viewport size on either axis, and
\* floor((window - viewportSize) / 2) per axis otherwise.
C5_AsStated ==
    AfterRecompute =>
        IF \/ window.x <= tiled_cam.vp_size.x
           \/ window.y <= tiled_cam.vp_size.y
        THEN tiled_cam.vp_pos = VZERO
        ELSE tiled_cam.vp_pos =
                 Vec((window.x - tiled_cam.vp_size.x) \div 2,
                     (window.y - tiled_cam.vp_size.y) \div 2)

\* C5, amended: after a recompute the cached viewport position is (0,0) if
\* the window is smaller than or equal to the target resolution on either
\* axis; otherwise it is floor((window - v) / 2) per axis, where
\* v = target * min(window.x / target.x, window.y / target.y), not rounded:
\* 0 on the axis with the smaller ratio and half the slack on the other.
C5_ViewportPosition ==
    AfterRecompute =>
        LET w == window
            t == TargetRes
        IN  IF w.x <= t.x \/ w.y <= t.y
            THEN tiled_cam.vp_pos = VZERO
            ELSE IF w.x * t.y <= w.y * t.x
                 THEN tiled_cam.vp_pos =
                          Vec(0, (w.y * t.x - t.y * w.x) \div (2 * t.x))
                 ELSE tiled_cam.vp_pos =
                          Vec((w.x * t.y - t.x * w.y) \div (2 * t.y), 0)

\* C5's case: a recompute for a window larger than the target on both axes
\* that leaves slack to centre within
C5_Witness ==
    /\ AfterRecompute
    /\ window.x > TargetRes.x
    /\ window.y > TargetRes.y
    /\ tiled_cam.vp_pos.y > 0

\* C6, as stated: the orthographic vertical size a recompute sets is
\* tile_count.y in WorldSpace::Units and tile_count.y * pixels_per_tile.y in
\* WorldSpace::Pixels, whatever the window resolution and the zoom.
C6_AsStated ==
    AfterRecompute =>
        /\ ortho.mode = "FixedVertical"
        /\ ortho.size =
             IF tiled_cam.grid.world_space = "Units"
             THEN [n |-> tiled_cam.tile_count.y, d |-> 1]
             ELSE [n |-> tiled_cam.tile_count.y * tiled_cam.pixels_per_tile.y,
                   d |-> 1]

-----------------------------------------------------------------------------
(* C11: for every in-bounds tile index i and every camera position, the    *)
(* tile's centre is its corner position plus (0.5, 0.5):                   *)
(* tile_to_tile_center_world(t, i) = tile_to_world(t, i) + (0.5, 0.5).     *)
C11_TileCenter ==
    (call.op = "tile_corner_and_center"
       /\ InRange(grid.tile_count, grid.centered, call.tile))
      => /\ call.corner.some
         /\ call.center.some
         /\ call.center.val.x = call.corner.val.x + HalfUnit
         /\ call.center.val.y = call.corner.val.y + HalfUnit

\* a centred 2x2 grid under a moved camera: tile (-1,-1) has its corner at
\* camera + (-1,-1) and its centre at camera + (-0.5,-0.5)
C11_Witness ==
    /\ call.op = "tile_corner_and_center"
    /\ grid.centered /\ grid.tile_count = Vec(2, 2)
    /\ transform = Vec(1, -1)
    /\ call.tile = Vec(-1, -1)
    /\ call.corner = Some(Vec(1 - Units(1), -1 - Units(1)))
    /\ call.center = Some(Vec(1 - HalfUnit, -1 - HalfUnit))

-----------------------------------------------------------------------------
(* C12, as stated: a tile count or pixels-per-tile with a zero component   *)
(* is rejected at construction, so no camera exists with one and no        *)
(* viewport recompute runs on a target resolution with a zero component.   *)
C12_AsStated ==
    /\ tiled_cam # None =>
         /\ tiled_cam.tile_count.x # 0 /\ tiled_cam.tile_count.y # 0
         /\ tiled_cam.pixels_per_tile.x # 0 /\ tiled_cam.pixels_per_tile.y # 0
    /\ AfterRecompute => (TargetRes.x # 0 /\ TargetRes.y # 0)

\* the position lies in the rectangle of the cached viewport position and size
InViewport(c, p) ==
    /\ c.vp_pos.x * p.x.d <= p.x.n
    /\ p.x.n <= (c.vp_pos.x + c.vp_size.x) * p.x.d
    /\ c.vp_pos.y * p.y.d <= p.y.n
    /\ p.y.n <= (c.vp_pos.y + c.vp_size.y) * p.y.d

(* C13, as stated: screen_to_world returns no result for every screen      *)
(* position outside the active viewport rectangle (measured over the       *)
(* viewport position and size) and a result for every position inside it.  *)
C13_AsStated ==
    call.op = "screen_to_world" =>
        (call.result.some <=> InViewport(tiled_cam, call.screen_pos))

\* the camera's cached fields are what a recompute on its current parameters
\* and the current window resolution produces
CacheIsCurrent ==
    LET fresh == update_viewport(tiled_cam, window).tiled_cam
    IN  /\ tiled_cam.grid.tile_count = fresh.grid.tile_count
        /\ tiled_cam.grid.pixels_per_tile = fresh.grid.pixels_per_tile
        /\ tiled_cam.zoom = fresh.zoom
        /\ tiled_cam.vp_size = fresh.vp_size
        /\ tiled_cam.vp_pos = fresh.vp_pos

(* C14, as stated: in every interleaving of parameter writes, window       *)
(* resizes, recompute steps and coordinate-transform calls, no transform   *)
(* call runs while the cached grid tile count, grid pixels per tile, zoom  *)
(* or viewport differ from what a recompute on the current parameters and  *)
(* the current window resolution would produce.                            *)
C14_AsStated ==
    call.op = "screen_to_world" => CacheIsCurrent

-----------------------------------------------------------------------------
\* the k-th tile (k = 1, 2, ..) of a grid in row-major order, x fastest
RowMajorTile(tile_count, centered, k) ==
    Vec((IF centered THEN -(tile_count.x \div 2) ELSE 0) + ((k - 1) % tile_count.x),
        (IF centered THEN -(tile_count.y \div 2) ELSE 0) + ((k - 1) \div tile_count.x))

\* what the k-th item of an iterator is to be: the corner of the k-th tile,
\* shifted by (0.5, 0.5) for the centre iterator
IterItem(op, k) ==
    LET w == tile_to_world(grid, transform,
                           RowMajorTile(grid.tile_count, grid.centered, k))
    IN  IF op = "pos_iter" THEN w.val ELSE VAdd(w.val, HALF)

(* C15: pos_iter yields exactly tileCount.x * tileCount.y items and then   *)
(* None on every later call; the items are, in row-major order (x fastest, *)
(* y slowest), the corner positions tile_to_world(i) of all in-bounds      *)
(* tiles without duplicates; center_iter yields the same sequence shifted  *)
(* by (0.5, 0.5); every pos_iter / center_iter call starts from the first  *)
(* tile.                                                                   *)
C15_Iterators ==
    call.op \in {"pos_iter", "center_iter"} =>
        LET n == grid.tile_count.x * grid.tile_count.y
            ys == call.yielded
        IN  /\ Len(ys) <= n
            /\ call.nones > 0 => Len(ys) = n
            /\ \A k \in 1..Len(ys) :
                 /\ InRange(grid.tile_count, grid.centered,
                            RowMajorTile(grid.tile_count, grid.centered, k))
                 /\ ys[k] = IterItem(call.op, k)
            /\ \A j, k \in 1..Len(ys) : j # k => ys[j] # ys[k]
            /\ Len(ys) = n =>
                 \A i \in IndexBox :
                     InRange(grid.tile_count, grid.centered, i) =>
                         \E k \in 1..n :
                             i = RowMajorTile(grid.tile_count, grid.centered, k)

\* a centred 3x2 grid: pos_iter has returned its six corners, (-1.5,-1) first
\* and (0.5, 0) last, and None twice after them
C15_Witness ==
    /\ call.op = "pos_iter"
    /\ grid.centered /\ grid.tile_count = Vec(3, 2)
    /\ transform = VZERO
    /\ Len(call.yielded) = 6
    /\ call.yielded[1] = Vec(-Units(1) - HalfUnit, -Units(1))
    /\ call.yielded[4] = Vec(-Units(1) - HalfUnit, 0)
    /\ call.yielded[6] = Vec(HalfUnit, 0)
    /\ call.nones = 2

-----------------------------------------------------------------------------
\* the closed intervals [alo, ahi] and [blo, bhi] have a point in common
IntervalsMeet(alo, ahi, blo, bhi) ==
    \E p \in (alo - 1)..(ahi + 1) : alo <= p /\ p <= ahi /\ blo <= p /\ p <= bhi

\* !(max < other.min || min > other.max) on one axis
AxisNotSeparated(alo, ahi, blo, bhi) == ~(ahi < blo \/ alo > bhi)

WellFormed(r) == r.min.x <= r.max.x /\ r.min.y <= r.max.y

(* C16: Rect::overlaps(a, b) is true exactly when the closed intervals     *)
(* [a.min, a.max] and [b.min, b.max] meet on both axes, that is when       *)
(* !(max < other.min || min > other.max) holds on each axis: rects that    *)
(* touch along an edge or at a corner overlap, rects separated on an axis  *)
(* do not; grid_overlaps applies the same test to the floored extents.     *)
(* For a rect whose max lies below its min the interval is read as that    *)
(* pair of bounds.                                                         *)
C16_Overlaps ==
    /\ call.op = "overlaps" =>
         LET a == call.a
             b == call.b
         IN  /\ call.result <=>
                  /\ AxisNotSeparated(a.min.x, a.max.x, b.min.x, b.max.x)
                  /\ AxisNotSeparated(a.min.y, a.max.y, b.min.y, b.max.y)
             /\ (WellFormed(a) /\ WellFormed(b)) =>
                  (call.result <=>
                     /\ IntervalsMeet(a.min.x, a.max.x, b.min.x, b.max.x)
                     /\ IntervalsMeet(a.min.y, a.max.y, b.min.y, b.max.y))
    /\ call.op = "grid_overlaps" =>
         LET amin == Vec(Floor(call.a.min.x), Floor(call.a.min.y))
             amax == Vec(Floor(call.a.max.x), Floor(call.a.max.y))
             bmin == Vec(Floor(call.b.min.x), Floor(call.b.min.y))
             bmax == Vec(Floor(call.b.max.x), Floor(call.b.max.y))
         IN  /\ call.result <=>
                  /\ AxisNotSeparated(amin.x, amax.x, bmin.x, bmax.x)
                  /\ AxisNotSeparated(amin.y, amax.y, bmin.y, bmax.y)
             /\ (WellFormed(call.a) /\ WellFormed(call.b)) =>
                  (call.result <=>
                     /\ IntervalsMeet(amin.x, amax.x, bmin.x, bmax.x)
                     /\ IntervalsMeet(amin.y, amax.y, bmin.y, bmax.y))

\* two rects that touch only at the corner (0, 0) overlap
C16_Witness ==
    /\ call.op = "overlaps"
    /\ call.a = Rect_from_extents(Vec(-HalfUnit, -HalfUnit), VZERO)
    /\ call.b = Rect_from_extents(VZERO, HALF)
    /\ call.result = TRUE

\* the integer cell c has its bottom-left corner in [min, max) of the rect
CornerInRect(r, c) ==
    /\ r.min.x <= Units(c.x) /\ Units(c.x) < r.max.x
    /\ r.min.y <= Units(c.y) /\ Units(c.y) < r.max.y

\* cells around the rects iterated over
CellBox == {Vec(x, y) : x \in -2..(MaxTiles + 1), y \in -2..(MaxTiles + 1)}

\* a comes before b in row-major order, x fastest
RowMajorBefore(a, b) == a.y < b.y \/ (a.y = b.y /\ a.x < b.x)

(* C17, as stated: Rect::iter yields, in row-major order with x fastest,   *)
(* every integer grid cell whose bottom-left corner lies in [min, max)     *)
(* exactly once and nothing else, then None; a rect of zero width or       *)
(* height yields an empty sequence.                                        *)
C17_AsStated ==
    call.op = "rect_iter" =>
        LET ys == call.yielded
        IN  /\ \A k \in 1..Len(ys) : CornerInRect(call.rect, ys[k])
            /\ \A j, k \in 1..Len(ys) : j < k => RowMajorBefore(ys[j], ys[k])
            /\ call.nones > 0 =>
                 \A c \in CellBox :
                     CornerInRect(call.rect, c) => \E k \in 1..Len(ys) : ys[k] = c

-----------------------------------------------------------------------------
(* C18 as stated: local_to_world(cameraPos, local) is                      *)
(* local * worldSpaceScale + cameraPos and world_to_local(cameraPos,       *)
(* world) is (world - cameraPos) / worldSpaceScale, the scale being 1 per  *)
(* axis in Units mode and pixels_per_tile per axis in Pixels mode, and     *)
(* each undoes the other.                                                  *)
C18_AsStated ==
    LET s == world_space_scale(tiled_cam.grid)
    IN  /\ call.op = "cam.local_to_world"
             => /\ call.result = Vec(call.local.x * s.x + transform.x,
                                     call.local.y * s.y + transform.y)
                /\ call.back = call.local
        /\ call.op = "cam.world_to_local"
             => /\ Vec(call.result.x * s.x, call.result.y * s.y)
                      = VSub(call.world, transform)
                /\ call.back = call.world

(* C18, amended: in both world spaces local_to_world(cameraPos, local) is  *)
(* local + cameraPos and world_to_local(cameraPos, world) is               *)
(* world - cameraPos, with no scale (the scale is applied by the grid's    *)
(* index and position conversions); each undoes the other.                 *)
C18_LocalWorld ==
    /\ call.op = "cam.local_to_world"
         => /\ call.result = Vec(call.local.x + transform.x,
                                 call.local.y + transform.y)
            /\ call.back = call.local
    /\ call.op = "cam.world_to_local"
         => /\ call.result = Vec(call.world.x - transform.x,
                                 call.world.y - transform.y)
            /\ call.back = call.world

\* a Pixels camera of 2 pixels per tile, away from the origin, maps local
\* (0.5, 0) to world
C18_Witness ==
    /\ call.op = "cam.local_to_world"
    /\ tiled_cam.grid.world_space = "Pixels"
    /\ tiled_cam.pixels_per_tile = Vec(2, 2)
    /\ transform = Vec(1, -1)
    /\ call.local = Vec(HalfUnit, 0)
    /\ call.result = Vec(HalfUnit + 1, -1)

-----------------------------------------------------------------------------
(* C19: for a TiledCamera at world position c, with per-axis scale s (1 in *)
(* Units mode, pixels_per_tile in Pixels mode) and offset o (0 on an axis  *)
(* with an even tile count, -0.5 on an axis with an odd one),              *)
(* index_to_tile_pos(i) is c + (i + o) * s, world_to_index(p) is           *)
(* floor((p - c) / s - o), and world_to_index(index_to_tile_pos(i)) is i   *)
(* for every index i in both world spaces.                                 *)
C19_IndexRoundTrip ==
    LET s == world_space_scale(tiled_cam.grid)
        o == Vec(IF tiled_cam.tile_count.x % 2 = 0 THEN 0 ELSE -HalfUnit,
                 IF tiled_cam.tile_count.y % 2 = 0 THEN 0 ELSE -HalfUnit)
        Pos(i) == Vec(transform.x + (Units(i.x) + o.x) * s.x,
                      transform.y + (Units(i.y) + o.y) * s.y)
        \* k = floor((p - c) / s - o): (k + o) * s <= p - c < (k + 1 + o) * s
        IsIndex(p, k) ==
            /\ Pos(k).x <= p.x /\ p.x < Pos(k).x + Units(1) * s.x
            /\ Pos(k).y <= p.y /\ p.y < Pos(k).y + Units(1) * s.y
    IN  /\ call.op = "index_to_tile_pos"
             => call.result = Some(Pos(call.tile))
        /\ call.op = "world_to_index"
             => call.result.some /\ IsIndex(call.world, call.result.val)
        /\ call.op = "cam.round_trip"
             => /\ call.world = Pos(call.tile)
                /\ call.result = call.tile

\* a Pixels camera of 3x2 tiles, 2 pixels per tile, away from the origin:
\* index (-2, 1) goes to world (-5 + 0.25, 2 - 0.25) and back
C19_Witness ==
    /\ call.op = "cam.round_trip"
    /\ tiled_cam.grid.world_space = "Pixels"
    /\ tiled_cam.pixels_per_tile = Vec(2, 2)
    /\ tiled_cam.tile_count = Vec(3, 2)
    /\ transform = Vec(1, -1)
    /\ call.tile = Vec(-2, 1)
    /\ call.world = Vec(-Units(5) + 1, Units(2) - 1)
    /\ call.result = Vec(-2, 1)

-----------------------------------------------------------------------------
(* C20 as stated: after every viewport recompute, the viewport rectangle   *)
(* written to the camera (cam.viewport) has the camera's cached viewport   *)
(* position as its position and the cached viewport size as its size, the  *)
(* values screen_to_world and world_to_screen then use.                    *)
C20_AsStated ==
    AfterRecompute =>
        /\ cam_viewport.some
        /\ cam_viewport.val.physical_position = tiled_cam.vp_pos
        /\ cam_viewport.val.physical_size = tiled_cam.vp_size

-----------------------------------------------------------------------------
\* cameras with the parameters of the camera entity and other cached values:
\* another zoom, viewport size, viewport position and grid sizes
Twins ==
    {[tiled_cam EXCEPT !.zoom = z, !.vp_size = s, !.vp_pos = p,
                       !.grid.tile_count = s, !.grid.pixels_per_tile = p] :
        z \in {1, MaxWin + 1},
        s \in {Vec(1, 1), Vec(MaxWin, 1)},
        p \in {VZERO, Vec(1, MaxWin)}}

(* C21: a viewport recompute is a function of tile count, pixels per tile, *)
(* world space and window resolution alone: a camera with the same         *)
(* parameters and any other cached zoom, viewport size and viewport        *)
(* position ends with the same cached values, projection size and          *)
(* viewport, and a second recompute with unchanged inputs changes nothing. *)
C21_PureRecompute ==
    AfterRecompute =>
        /\ update_viewport(tiled_cam, window) =
               [scaling_mode |-> ortho, viewport |-> cam_viewport,
                tiled_cam |-> tiled_cam]
        /\ \A twin \in Twins :
              update_viewport(twin, window) =
                  [scaling_mode |-> ortho, viewport |-> cam_viewport,
                   tiled_cam |-> tiled_cam]

\* a recompute that left a zoom, a viewport size and a viewport position
\* other than a new camera's, in Pixels mode
C21_Witness ==
    /\ AfterRecompute
    /\ world_space(tiled_cam) = "Pixels"
    /\ tiled_cam.zoom = 2
    /\ tiled_cam.vp_size = Vec(2, 2)
    /\ tiled_cam.vp_pos = Vec(0, 1)
    /\ ortho = [mode |-> "FixedVertical", size |-> Frac(2, 1)]

-----------------------------------------------------------------------------
\* the offset the current (centered, tile count) pair of the projection
\* gives: for a centred projection 0.5 on an axis with an even tile count
\* and 0 on an axis with an odd one; half a tile on both axes for an
\* uncentred one
DerivedOffset ==
    IF proj.centered
    THEN Vec(IF proj.target_tile_count.x % 2 = 0 THEN HalfUnit ELSE 0,
             IF proj.target_tile_count.y % 2 = 0 THEN HalfUnit ELSE 0)
    ELSE Vec(HalfUnit, HalfUnit)

(* C22: after any sequence of TiledProjection::new / uncentered /          *)
(* set_tile_count / set_centered calls the stored centre offset is the one *)
(* derived from the current (centered, tile count) pair, for a centred     *)
(* projection 0.5 on each axis whose tile count is even and 0 on each axis *)
(* whose tile count is odd; and the tile transforms made after the calls   *)
(* use that offset.                                                        *)
C22_CenterOffset ==
    proj # None =>
        /\ proj.center_offset = DerivedOffset
        /\ (call.op = "proj.tile_to_world" /\ call.result.some)
              => call.result.val =
                    Vec(transform.x + Units(call.tile.x) + DerivedOffset.x - HalfUnit,
                        transform.y + Units(call.tile.y) + DerivedOffset.y - HalfUnit)
        /\ call.op = "proj.tile_to_local"
              => call.result =
                    Vec(Units(call.tile.x) + DerivedOffset.x - HalfUnit,
                        Units(call.tile.y) + DerivedOffset.y - HalfUnit)

\* a centred projection of 2x3 tiles: tile (-1, 1) is at local (-1, 0.5)
C22_Witness ==
    /\ proj # None
    /\ proj.centered /\ proj.target_tile_count = Vec(2, 3)
    /\ proj.center_offset = Vec(HalfUnit, 0)
    /\ call.op = "proj.tile_to_local"
    /\ call.tile = Vec(-1, 1)
    /\ call.result = Vec(-Units(1), HalfUnit)

-----------------------------------------------------------------------------
(* C23: after any sequence of TiledCameraBundle builder calls (new,        *)
(* unit_cam, pixel_cam, with_world_space, with_tile_count,                 *)
(* with_pixels_per_tile, in any order) the camera's tile_count and         *)
(* pixels_per_tile equal those of its grid and world_space() is the last   *)
(* world space chosen (Pixels by pixel_cam, Units by unit_cam);            *)
(* with_tile_count and with_pixels_per_tile leave the world space as it    *)
(* was.                                                                    *)
C23_BundleBuilders ==
    /\ tiled_cam.tile_count = tiled_cam.grid.tile_count
    /\ tiled_cam.pixels_per_tile = tiled_cam.grid.pixels_per_tile
    /\ world_space(tiled_cam) = call.chosen
    /\ call.op = "pixel_cam" => world_space(tiled_cam) = "Pixels"
    /\ call.op = "unit_cam" => world_space(tiled_cam) = "Units"

\* a tile count given after Pixels was chosen
C23_Witness ==
    /\ call.op = "with_tile_count"
    /\ call.chosen = "Pixels"
    /\ world_space(tiled_cam) = "Pixels"
    /\ tiled_cam.tile_count = Vec(3, 2)
    /\ tiled_cam.grid.tile_count = Vec(3, 2)
    /\ tiled_cam.pixels_per_tile = Vec(8, 8)

-----------------------------------------------------------------------------
(* C24: a centred grid is placed symmetrically about the camera position:  *)
(* min_world_position is the camera position minus tileCount / 2 on each   *)
(* axis, for odd and even counts alike, and the centres of the in-bounds   *)
(* tiles, taken relative to the camera, are closed under negation; for an  *)
(* uncentred grid min_world_position is the camera position and is the     *)
(* corner of tile (0,0).                                                   *)
C24_Symmetry ==
    call.op = "min_world_position" =>
        IF grid.centered
        THEN /\ call.result = Vec(transform.x - HalfUnit * grid.tile_count.x,
                                  transform.y - HalfUnit * grid.tile_count.y)
             /\ Cardinality(call.centers) = grid.tile_count.x * grid.tile_count.y
             /\ \A c \in call.centers :
                   \E d \in call.centers :
                      VSub(d, transform) = VSub(VZERO, VSub(c, transform))
        ELSE /\ call.result = transform
             /\ call.origin = Some(call.result)

\* a centred 3x2 grid away from the origin: the minimum is (-1.5, -1) from
\* the camera
C24_Witness ==
    /\ call.op = "min_world_position"
    /\ grid.centered /\ grid.tile_count = Vec(3, 2)
    /\ transform = Vec(1, -1)
    /\ call.result = Vec(1 - Units(1) - HalfUnit, -1 - Units(1))
    /\ Vec(1 + Units(1), -1 - HalfUnit) \in call.centers
    /\ Vec(1 - Units(1), -1 + HalfUnit) \in call.centers

-----------------------------------------------------------------------------
(* C25: tile transforms are equivariant under camera translation: for      *)
(* every camera position c, offset d, index i and world position p,        *)
(* tile_to_world at camera c + d is tile_to_world at camera c plus d (the  *)
(* same for tile centres), world_to_tile at camera c + d of p + d is       *)
(* world_to_tile at camera c of p, and the bounds check does not depend on *)
(* the camera position.                                                    *)
C25_Translation ==
    /\ call.op = "moved.tile_to_world"
         => /\ call.moved.some = call.at.some
            /\ call.center_moved.some = call.center_at.some
            /\ call.at.some = InRange(grid.tile_count, grid.centered, call.tile)
            /\ call.at.some
                  => /\ call.moved.val = VAdd(call.at.val, call.offset)
                     /\ call.center_moved.val = VAdd(call.center_at.val, call.offset)
    /\ call.op = "moved.world_to_tile"
         => call.moved = call.at

\* tile (0,0) of a centred 3x3 grid, the camera moved by (1, -0.5)
C25_Witness ==
    /\ call.op = "moved.tile_to_world"
    /\ grid.centered /\ grid.tile_count = Vec(3, 3)
    /\ transform = VZERO
    /\ call.tile = VZERO
    /\ call.offset = Vec(Units(1), -HalfUnit)
    /\ call.at = Some(Vec(-HalfUnit, -HalfUnit))
    /\ call.moved = Some(Vec(HalfUnit, -Units(1)))
    /\ call.center_moved = Some(Vec(Units(1), -HalfUnit))

-----------------------------------------------------------------------------
\* the grid's minimum corner: the camera position minus half the tile count
\* for a centred grid, the camera position for an uncentred one
GridMin ==
    IF grid.centered
    THEN Vec(transform.x - HalfUnit * grid.tile_count.x,
             transform.y - HalfUnit * grid.tile_count.y)
    ELSE transform

(* C26: for every local position p the tile t = local_to_tile(p) has       *)
(* tile_to_local(t) <= p < tile_to_local(t) + 1 on both axes, so each      *)
(* point belongs to exactly one tile; and SizedGrid::world_to_tile returns *)
(* Some exactly for the world positions inside the half-open extent        *)
(* [min_world_position, min_world_position + tileCount).                   *)
C26_LocalToTile ==
    /\ call.op = "local_to_tile"
         => /\ call.corner.x <= call.local.x
            /\ call.local.x < call.corner.x + Units(1)
            /\ call.corner.y <= call.local.y
            /\ call.local.y < call.corner.y + Units(1)
            /\ \A k \in IndexBox :
                  IsFloorIndex(grid.tile_count, grid.centered, call.local, k)
                     => k = call.result
    /\ call.op = "world_to_tile"
         => call.result.some =
               (/\ GridMin.x <= call.world.x
                /\ call.world.x < GridMin.x + Units(grid.tile_count.x)
                /\ GridMin.y <= call.world.y
                /\ call.world.y < GridMin.y + Units(grid.tile_count.y))

\* local (-0.25, 0.75) in a centred 2x3 grid: tile (-1, 1), whose corner is
\* (-1, 0.5)
C26_Witness ==
    /\ call.op = "local_to_tile"
    /\ grid.centered /\ grid.tile_count = Vec(2, 3)
    /\ call.local = Vec(-1, 3)
    /\ call.result = Vec(-1, 1)
    /\ call.corner = Vec(-Units(1), HalfUnit)

-----------------------------------------------------------------------------
\* the entity's cached values, scaling mode and viewport are the ones a
\* recompute for the current window resolution gives
Recomputed(e) ==
    LET st == update_viewport(e.tiled_cam, window)
    IN  /\ st.tiled_cam = e.tiled_cam
        /\ st.scaling_mode = e.scaling_mode
        /\ st.viewport = e.viewport

(* C27 as stated: after a primary-window resize event is processed every   *)
(* TiledCamera that exists (one, two or more) has its cached zoom and      *)
(* viewport recomputed for the new window resolution; recomputing one      *)
(* camera never changes another camera's cached state; a resize event for  *)
(* a non-primary window changes no camera.                                 *)
C27_AsStated ==
    /\ call.op = "on_window_resized"
         => IF call.primary
            THEN \A i \in 1..Len(entities) : Recomputed(entities[i])
            ELSE entities = call.before
    /\ call.op = "on_camera_changed"
         => \A i \in 1..Len(entities) :
               ~call.before[i].changed => entities[i] = call.before[i]

-----------------------------------------------------------------------------
\* n pixels of the screen in world units after the update: n / (pixels_per_tile * zoom)
ScreenPixels(n) == Frac(n, proj.pixels_per_tile * proj.zoom)

\* the edge is a whole number of screen pixels from the origin
OnPixelGrid(edge) ==
    FMul(edge, Frac(proj.pixels_per_tile * proj.zoom, 1)).d = 1

(* C28: after TiledProjection::update(width, height) with integer window   *)
(* dimensions, zoom is max(1, min over the axes of                         *)
(* floor(window / (tile_count * pixels_per_tile))), right - left is        *)
(* width / (zoom * pixels_per_tile) and top - bottom is                    *)
(* height / (zoom * pixels_per_tile); for a centred projection left and    *)
(* bottom, hence all four edges, are integer multiples of one screen       *)
(* pixel, 1 / (pixels_per_tile * zoom) world units; for an uncentred       *)
(* projection left = bottom = 0.                                           *)
C28_ProjectionUpdate ==
    call.op = "proj.update" =>
        /\ proj.zoom =
              Max2(1, Min2(call.width.n \div
                              (proj.target_tile_count.x * proj.pixels_per_tile),
                           call.height.n \div
                              (proj.target_tile_count.y * proj.pixels_per_tile)))
        /\ FSub(proj.right, proj.left) = ScreenPixels(call.width.n)
        /\ FSub(proj.top, proj.bottom) = ScreenPixels(call.height.n)
        /\ IF proj.centered
           THEN /\ OnPixelGrid(proj.left) /\ OnPixelGrid(proj.bottom)
                /\ OnPixelGrid(proj.right) /\ OnPixelGrid(proj.top)
           ELSE proj.left = FZero /\ proj.bottom = FZero

\* a centred projection of 1x1 tiles, 1 pixel per tile, in a 3x4 window:
\* zoom 3, the view 1 wide and 4/3 high, left two screen pixels from 0
C28_Witness ==
    /\ call.op = "proj.update"
    /\ proj.centered /\ proj.target_tile_count = Vec(1, 1)
    /\ proj.pixels_per_tile = 1
    /\ call.width = Frac(3, 1) /\ call.height = Frac(4, 1)
    /\ proj.zoom = 3
    /\ proj.left = Frac(-2, 3) /\ proj.right = Frac(1, 3)
    /\ proj.bottom = Frac(-2, 3) /\ proj.top = Frac(2, 3)

\* C29, as stated: every Rect constructor agrees with the accessors it is
\* read back with: from_position_size(p, s) gives position() = p and
\* size() = s, from_extents(a, b) gives min = a and max = b,
\* from_center_size(c, s) gives center() = c and size() = s, and the grid
\* constructors give the same with grid_position, grid_size, grid_min,
\* grid_max and grid_center.
C29_AsStated ==
    /\ call.op \in {"from_position_size", "from_grid_position_size"}
         => call.position = call.pos /\ call.got_size = call.size
    /\ call.op = "from_extents"
         => call.rect.min = call.min /\ call.rect.max = call.max
    /\ call.op = "from_grid_extents"
         => call.grid_min = call.min /\ call.grid_max = call.max
    /\ call.op \in {"from_center_size", "from_grid_center_size"}
         => call.got_center = call.center /\ call.got_size = call.size

\* C30, as stated: in every state reached by new(cell_size) and any number
\* of set_cell_size calls the stored half size is half the cell size, so
\* cell_to_cell_center(c) is c * cell_size + cell_size / 2, the centre of
\* cell c; and to_cell(p) is floor(p / cell_size), the cell k with
\* k * cell_size <= p < (k + 1) * cell_size, also for negative positions.
C30_AsStated ==
    /\ grid.cell_half_size.x * 2 = grid.cell_size.x
    /\ grid.cell_half_size.y * 2 = grid.cell_size.y
    /\ call.op = "grid.cell_to_cell_center" =>
         /\ 2 * call.result.x = (2 * call.cell.x + 1) * grid.cell_size.x
         /\ 2 * call.result.y = (2 * call.cell.y + 1) * grid.cell_size.y
    /\ call.op = "grid.to_cell" =>
         /\ call.result.x * grid.cell_size.x <= call.pos.x
         /\ call.pos.x < (call.result.x + 1) * grid.cell_size.x
         /\ call.result.y * grid.cell_size.y <= call.pos.y
         /\ call.pos.y < (call.result.y + 1) * grid.cell_size.y

=============================================================================
